---------------------------- MODULE Spec2Model ----------------------------
(***************************************************************************)
(* Refresh scheduler, connectivity monitor, persistent cache and offline   *)
(* action queue of the Pi0 info display (src/display.py, src/ha_api.py).   *)
(*                                                                         *)
(* Time.  The code compares time.time() with absolute timestamps           *)
(* (self.last_<d>_update).  The model keeps, for every timer, the          *)
(* difference current_time - last_<d>_update ("age"), saturated at AgeCap  *)
(* (larger than every interval, so the comparison age > interval is        *)
(* unchanged), and the distinct value Never for a timestamp of 0 (the      *)
(* epoch: current_time - 0 exceeds every interval).  The intervals are     *)
(* counted in model time units and keep the order of the source's values.  *)
(*                                                                         *)
(* Values.  A payload fetched from the hub is a positive number, 0 is      *)
(* Python's None, a list is a sequence.  A queued action is the record of  *)
(* its type and of the data fields the replay reads.                       *)
(***************************************************************************)
EXTENDS Integers, Sequences, FiniteSets, TLC

\* ------------------------------------------------------------ bounds
MaxUid == 2         \* task uids are 1..MaxUid
MaxQueue == 2       \* the user enqueues while the queue is shorter than this
MaxStep == 1        \* seconds (model units) one clock.tick(1) may take

\* ------------------------------------------------- program constants
\* Refresh intervals (display.py 315-318, 371, 2332) and the probe interval
\* (display.py 382), in model time units: the source's defaults are 30 s for
\* the probe, 60 s for tasks and mailbox, 300 s for weather, calendar and sun,
\* 1800 s for the forecast.
ha_check_interval == 1
tasks_interval == 1
mailbox_interval == 1
weather_interval == 3
calendar_interval == 3
sun_interval == 3
forecast_interval == 4

AgeCap == forecast_interval + 1
Never == AgeCap + 1

\* Configured entities (display.py 324-328).
weather_entity == "weather.home"
task_lists == <<"todo.a", "todo.b">>
calendars == <<"calendar.home">>
mailbox_entity == "binary_sensor.mailbox_door"
mailbox_check_switch == "input_boolean.check_mailbox"
sun_entity == "sun.sun"

Uids == 1..MaxUid
\* The to-do list of the hub that holds task u.
ListOf(u) == IF u % 2 = 1 THEN task_lists[1] ELSE task_lists[2]

Domains == {"weather", "forecast", "tasks", "calendar", "mailbox", "sun"}

Interval(d) ==
    CASE d = "weather" -> weather_interval
      [] d = "forecast" -> forecast_interval
      [] d = "tasks" -> tasks_interval
      [] d = "calendar" -> calendar_interval
      [] d = "mailbox" -> mailbox_interval
      [] d = "sun" -> sun_interval

\* Mutant: a timer fires when its interval has just elapsed.
Due_AtInterval(a, interval) == a = Never \/ a >= interval

\* current_time - last > interval, last = 0 included.
Due(a, interval) == a = Never \/ a > interval

\* The age after dt more seconds.
Older(a, dt) == IF a = Never THEN Never ELSE IF a + dt > AgeCap THEN AgeCap ELSE a + dt

VARIABLES
    self,         \* the Pi0Display object's fields
    cache,        \* DataCache.data
    disk,         \* the cache file: [valid, data]
    age,          \* current_time - last_<d>_update, and - last_ha_check
    hub,          \* the Home Assistant hub (environment)
    today,        \* date.today() (environment)
    disk_ok,      \* whether open()/json.dump of the cache file succeeds (environment)
    pc,           \* position of the process: "run" (before the main loop), "loop", "drain"
    op,           \* the handler that ran last
    trace,        \* the hub calls the last handler made, in order
    since_fetch   \* seconds since the last fetch attempt of each domain (Never: none yet)

vars == <<self, cache, disk, age, hub, today, disk_ok, pc, op, trace, since_fetch>>

\* ------------------------------------------------------------- cache
\* DataCache.__init__: self.data, with the keys the display reads and their
\* defaults (a key absent from the dict reads as the default of its get).
CacheDefaults ==
    [weather |-> 0, forecast |-> <<>>, tasks |-> <<>>,
     calendar_today |-> <<>>, calendar_upcoming |-> <<>>,
     mailbox |-> 0, mailbox_opened_today |-> FALSE, mailbox_opened_time |-> 0,
     mailbox_cleared |-> FALSE, mailbox_check_date |-> 0,
     sun_data |-> 0, pending_actions |-> <<>>, quote_date |-> 0]

\* DataCache._load: the snapshot over the defaults; a missing or malformed
\* file leaves the defaults.
Load(d) == IF d.valid THEN d.data ELSE CacheDefaults

\* DataCache.save: the whole dict replaces the file; a failure is logged only.
Save(P) == IF disk_ok THEN [P EXCEPT !.disk = [valid |-> TRUE, data |-> P.cache]] ELSE P

\* DataCache.set
CacheSet(P, key, value) == Save([P EXCEPT !.cache[key] = value])

\* Statement sequencing.  Only({F(y) : y \in {x}}) is F(x): the statement F
\* runs on the state x that the statements before it left.
Only(S) == CHOOSE r \in S : TRUE

\* One hub call of a handler: <<operation, entity, item uid, succeeded>>.
Call(P, name, entity, uid, ok) == [P EXCEPT !.trace = Append(@, <<name, entity, uid, ok>>)]


\* ------------------------------------------------------- hub client
\* HomeAssistantAPI._request: the call reaches the hub and is answered with a
\* decodable body, or yields None.  A call fails when the hub is down; while
\* the hub misbehaves (not api_ok) the calls named in fails fail.
RequestOk(h, fails, endpoint) == h.up /\ (h.api_ok \/ endpoint \notin fails)
\* The request is answered, with a body of a shape the code that reads it
\* does not expect (h.malformed holds the endpoints that answer so): an
\* exception leaves the caller.
Raises(h, fails, endpoint) == RequestOk(h, fails, endpoint) /\ endpoint \in h.malformed
\* The statement Q that follows P runs unless an exception is on its way.
IfNotRaised(P, Q) == IF P.raised THEN P ELSE Q

RECURSIVE Ascending(_)
Ascending(S) ==
    IF S = {} THEN <<>>
    ELSE LET m == CHOOSE x \in S : \A y \in S : x <= y
         IN <<m>> \o Ascending(S \ {m})

\* get_weather, get_binary_sensor, get_state: None when the request fails.
GetWeather(h, ok) == IF ok THEN h.weather ELSE 0
GetBinarySensor(h, ok) == IF ok THEN h.mailbox ELSE 0
GetSunState(h, ok) == IF ok THEN h.sun ELSE 0
\* get_weather_forecast, get_todo_items, get_calendar_events: [] when it fails.
GetWeatherForecast(h, ok) == IF ok THEN h.forecast ELSE <<>>
GetTodoItems(h, entity, ok) ==
    IF ok THEN Ascending({u \in h.tasks : ListOf(u) = entity}) ELSE <<>>
GetCalendarEvents(h, entity, ok) == IF ok THEN h.calendar ELSE <<>>
\* get_sensor_history_today: the first "on" of today, or None.
GetSensorHistoryToday(h, ok) == IF ok THEN h.first_open ELSE 0

\* complete_todo_item: the hub marks the item completed when the call succeeds.
CompleteAtHub(h, uid, ok) == IF ok THEN [h EXCEPT !.tasks = @ \ {uid}] ELSE h

\* ---------------------------------------------------- offline queue
Action(entity, uid) == [type |-> "complete_task", entity_id |-> entity, task_uid |-> uid]

\* Mutant: an action equal to one already queued is not queued again.
QueuePendingAction_Dedup(P, entity, uid) ==
    LET q == IF \E i \in 1..Len(P.self.pending_actions) :
                    P.self.pending_actions[i] = Action(entity, uid)
             THEN P.self.pending_actions
             ELSE Append(P.self.pending_actions, Action(entity, uid))
    IN CacheSet([P EXCEPT !.self.pending_actions = q], "pending_actions", q)

\* Mutant: the new action is put at the head of the queue.
QueuePendingAction_Prepend(P, entity, uid) ==
    LET q == <<Action(entity, uid)>> \o P.self.pending_actions
    IN CacheSet([P EXCEPT !.self.pending_actions = q], "pending_actions", q)

\* _queue_pending_action
QueuePendingAction(P, entity, uid) ==
    LET q == Append(P.self.pending_actions, Action(entity, uid))
    IN CacheSet([P EXCEPT !.self.pending_actions = q], "pending_actions", q)

\* Mutant: the task is removed from the list in memory only.
RemoveTaskFromLocalList_MemoryOnly(P, uid) ==
    [P EXCEPT !.self.task_items = SelectSeq(@, LAMBDA t : t # uid)]

\* _remove_task_from_local_list
RemoveTaskFromLocalList(P, uid) ==
    LET items == SelectSeq(P.self.task_items, LAMBDA t : t # uid)
    IN CacheSet([P EXCEPT !.self.task_items = items], "tasks", items)

\* Mutant: the replay loop stops at the first action whose replay fails.
RECURSIVE ReplayLoop_Blocking(_, _, _, _)
ReplayLoop_Blocking(P, i, n, oks) ==
    IF i > n THEN P
    ELSE LET a == P.self.pending_actions[i]
             attempt == a.type = "complete_task" /\ a.entity_id # "" /\ a.task_uid # 0
             ok == attempt /\ P.hub.up /\ (P.hub.api_ok \/ i \in oks)
             P1 == IF attempt
                   THEN Call([P EXCEPT !.hub = CompleteAtHub(@, a.task_uid, ok)],
                             "complete_todo_item", a.entity_id, a.task_uid, ok)
                   ELSE P
         IN IF ok THEN ReplayLoop_Blocking([P1 EXCEPT !.removed = @ \cup {i}], i + 1, n, oks)
            ELSE P1

\* Mutant: the replay loop walks the queue from its tail to its head.
RECURSIVE ReplayLoop_Reversed(_, _, _, _)
ReplayLoop_Reversed(P, i, n, oks) ==
    IF i > n THEN P
    ELSE LET j == n + 1 - i
             a == P.self.pending_actions[j]
             attempt == a.type = "complete_task" /\ a.entity_id # "" /\ a.task_uid # 0
             ok == attempt /\ P.hub.up /\ (P.hub.api_ok \/ j \in oks)
             P1 == IF attempt
                   THEN Call([P EXCEPT !.hub = CompleteAtHub(@, a.task_uid, ok)],
                             "complete_todo_item", a.entity_id, a.task_uid, ok)
                   ELSE P
         IN ReplayLoop_Reversed([P1 EXCEPT !.removed = IF ok THEN @ \cup {j} ELSE @],
                                i + 1, n, oks)

\* The replay loop of _process_pending_actions over the first n queued
\* actions: one complete_todo_item call per action, in queue order.
RECURSIVE ReplayLoop(_, _, _, _)
ReplayLoop(P, i, n, oks) ==
    IF i > n THEN P
    ELSE LET a == P.self.pending_actions[i]
             attempt == a.type = "complete_task" /\ a.entity_id # "" /\ a.task_uid # 0
             ok == attempt /\ P.hub.up /\ (P.hub.api_ok \/ i \in oks)
             P1 == IF attempt
                   THEN Call([P EXCEPT !.hub = CompleteAtHub(@, a.task_uid, ok)],
                             "complete_todo_item", a.entity_id, a.task_uid, ok)
                   ELSE P
         IN ReplayLoop([P1 EXCEPT !.removed = IF ok THEN @ \cup {i} ELSE @], i + 1, n, oks)

\* pop(i) for every index in actions_to_remove
RECURSIVE PopAll(_, _, _)
PopAll(q, i, removed) ==
    IF i > Len(q) THEN <<>>
    ELSE (IF i \in removed THEN <<>> ELSE <<q[i]>>) \o PopAll(q, i + 1, removed)

\* Mutant: the drain pass does not write the queue it leaves to the cache.
ProcessPendingActions_NoPersist(P, oks) ==
    LET P0 == Call(P, "_process_pending_actions", "", 0, TRUE)
    IN IF P.self.pending_actions = <<>> THEN P0
       ELSE LET P1 == ReplayLoop([P0 EXCEPT !.removed = {}], 1, Len(P.self.pending_actions), oks)
                q == PopAll(P1.self.pending_actions, 1, P1.removed)
            IN [P1 EXCEPT !.self.pending_actions = q]

\* _process_pending_actions
ProcessPendingActions(P, oks) ==
    LET P0 == Call(P, "_process_pending_actions", "", 0, TRUE)
    IN IF P.self.pending_actions = <<>> THEN P0
       ELSE LET P1 == ReplayLoop([P0 EXCEPT !.removed = {}], 1, Len(P.self.pending_actions), oks)
                q == PopAll(P1.self.pending_actions, 1, P1.removed)
            IN CacheSet([P1 EXCEPT !.self.pending_actions = q], "pending_actions", q)

\* _complete_task
CompleteTaskHandler(P, uid, oks) ==
    IF uid = 0 \/ task_lists = <<>> THEN P
    ELSE LET entity_id == task_lists[1]
             P1 == RemoveTaskFromLocalList(P, uid)
             ok == P1.hub.up /\ (P1.hub.api_ok \/ 1 \in oks)
             P2 == Call([P1 EXCEPT !.hub = CompleteAtHub(@, uid, ok)],
                        "complete_todo_item", entity_id, uid, ok)
         IN IF P1.self.ha_connected
            THEN IF ok THEN [P2 EXCEPT !.age.tasks = Never]
                 ELSE QueuePendingAction(P2, entity_id, uid)
            ELSE QueuePendingAction(P1, entity_id, uid)

\* --------------------------------------------------------- calendar
\* An event is <<day, time of day, id>>: its start string is the date alone
\* (time of day 0, an all-day event) or the date followed by the time, so the
\* order of the start strings is the order of the pairs <<day, time of day>>.
StartBefore(a, b) == a[1] < b[1] \/ (a[1] = b[1] /\ a[2] < b[2])

\* Mutant: the sort puts an event before the events of equal start.
RECURSIVE InsertByStart_BeforeTies(_, _)
InsertByStart_BeforeTies(s, e) ==
    IF s = <<>> THEN <<e>>
    ELSE IF ~StartBefore(s[Len(s)], e)
    THEN Append(InsertByStart_BeforeTies(SubSeq(s, 1, Len(s) - 1), e), s[Len(s)])
    ELSE Append(s, e)

\* list.sort(key=start): stable, ascending.
RECURSIVE InsertByStart(_, _)
InsertByStart(s, e) ==
    IF s = <<>> THEN <<e>>
    ELSE IF StartBefore(e, s[Len(s)]) THEN Append(InsertByStart(SubSeq(s, 1, Len(s) - 1), e), s[Len(s)])
    ELSE Append(s, e)

RECURSIVE SortByStart(_)
SortByStart(s) ==
    IF s = <<>> THEN <<>>
    ELSE InsertByStart(SortByStart(SubSeq(s, 1, Len(s) - 1)), s[Len(s)])

FirstN(s, n) == SubSeq(s, 1, IF Len(s) < n THEN Len(s) ELSE n)

\* ---------------------------------------------------------- mailbox
\* The display text of the first-open timestamp, an hour of the local day
\* (1..23): the hour on the 12-hour clock, then 1 for AM and 2 for PM.
FormatTime(t) == (IF t % 12 = 0 THEN 12 ELSE t % 12) * 10 + (IF t % 24 < 12 THEN 1 ELSE 2)

\* _check_mailbox_opened_today, from "if self.mailbox_cleared" on
CheckMailboxCleared(P1, fails) ==
    IF P1.raised \/ P1.self.mailbox_cleared THEN P1
       ELSE IF mailbox_check_switch # "" /\ P1.self.mailbox_opened_today /\ ~P1.self.mailbox_check_on
       THEN LET A == [P1 EXCEPT !.self.mailbox_cleared = TRUE,
                                !.self.mailbox_opened_today = FALSE,
                                !.self.mailbox_opened_time = 0]
            IN CacheSet(CacheSet(CacheSet(A, "mailbox_cleared", TRUE),
                                 "mailbox_opened_today", FALSE), "mailbox_opened_time", 0)
       ELSE IF P1.self.mailbox_opened_today THEN P1
       ELSE LET okH == RequestOk(P1.hub, fails, "history")
                first_open_time == GetSensorHistoryToday(P1.hub, okH)
                C == Call(P1, "get_sensor_history_today", mailbox_entity, 0, okH)
                D == IF first_open_time # 0
                     THEN [C EXCEPT !.self.mailbox_opened_time = FormatTime(first_open_time),
                                    !.self.mailbox_opened_today = TRUE]
                     ELSE C
            IN IF Raises(P1.hub, fails, "history") THEN [C EXCEPT !.raised = TRUE]
               ELSE CacheSet(CacheSet(D, "mailbox_opened_today", D.self.mailbox_opened_today),
                             "mailbox_opened_time", D.self.mailbox_opened_time)

\* _check_mailbox_opened_today, from the switch check on
CheckMailboxSwitch(P, fails) ==
    LET okS == RequestOk(P.hub, fails, "switch")
    IN Only({CheckMailboxCleared(P1, fails) : P1 \in
               {IF mailbox_check_switch # ""
                THEN LET C == Call(P, "get_state", mailbox_check_switch, 0, okS)
                     IN IF Raises(P.hub, fails, "switch") THEN [C EXCEPT !.raised = TRUE]
                        ELSE IF okS THEN [C EXCEPT !.self.mailbox_check_on = P.hub.switch_on]
                        ELSE C
                ELSE P}})

\* _check_mailbox_opened_today
CheckMailboxOpenedToday(P, fails) ==
    LET P1 == IF P.self.mailbox_check_date # today
              THEN LET A == [P EXCEPT !.self.mailbox_check_date = today,
                                      !.self.mailbox_opened_today = FALSE,
                                      !.self.mailbox_opened_time = 0,
                                      !.self.mailbox_cleared = FALSE,
                                      !.self.mailbox_check_on = FALSE]
                   IN CacheSet(CacheSet(CacheSet(CacheSet(A, "mailbox_check_date", today),
                                                 "mailbox_cleared", FALSE),
                                        "mailbox_opened_today", FALSE),
                               "mailbox_opened_time", 0)
              ELSE P
    IN Only({CheckMailboxSwitch(X, fails) : X \in {P1}})

\* ------------------------------------------------------ update_data
\* The endpoints whose requests may fail independently.
Range(s) == {s[i] : i \in 1..Len(s)}
Endpoints == {"weather", "forecast", "mailbox", "switch", "history", "sun"}
                 \cup Range(task_lists) \cup Range(calendars)

\* A fetch of domain d is attempted now: the timer restarts.
Attempted(P, d) == [P EXCEPT !.sf[d] = 0]
TimerNow(P, d) == IfNotRaised(P, [P EXCEPT !.age[d] = 0])

\* Mutant: the reconnect forgets the forecast timer.
CheckHAConnection_ForgetForecast(P, oks) ==
    IF Due(P.age.ha_check, ha_check_interval)
    THEN LET was_connected == P.self.ha_connected
             P1 == TimerNow(Call([P EXCEPT !.self.ha_connected = P.hub.up],
                                 "_check_ha_connection", "", 0, P.hub.up), "ha_check")
         IN IF ~was_connected /\ P1.self.ha_connected
            THEN LET P2 == ProcessPendingActions(P1, oks)
                 IN [P2 EXCEPT !.age = [d \in DOMAIN @ |->
                                          IF d \in Domains \ {"forecast"} THEN Never ELSE @[d]]]
            ELSE P1
    ELSE P

\* update_data: "Check HA connection status periodically"
CheckHAConnection(P, oks) ==
    IF Due(P.age.ha_check, ha_check_interval)
    THEN LET was_connected == P.self.ha_connected
             P1 == TimerNow(Call([P EXCEPT !.self.ha_connected = P.hub.up],
                                 "_check_ha_connection", "", 0, P.hub.up), "ha_check")
         IN IF ~was_connected /\ P1.self.ha_connected
            THEN LET P2 == ProcessPendingActions(P1, oks)
                 IN [P2 EXCEPT !.age = [d \in DOMAIN @ |-> IF d \in Domains THEN Never ELSE @[d]]]
            ELSE P1
    ELSE P

\* Mutant: the weather timer restarts only when the fetch returned data.
UpdateWeather_RetryOnFailure(P, fails) ==
    IF Due(P.age.weather, weather_interval)
    THEN IF weather_entity # ""
         THEN LET ok == RequestOk(P.hub, fails, "weather")
                  new_data == GetWeather(P.hub, ok)
                  C == Attempted(Call(P, "get_weather", weather_entity, 0, ok), "weather")
              IN IF new_data # 0
                 THEN TimerNow(CacheSet([C EXCEPT !.self.weather_data = new_data],
                                        "weather", new_data), "weather")
                 ELSE C
         ELSE TimerNow(P, "weather")
    ELSE P

\* Mutant: the weather refresh keeps the new data in memory only.
UpdateWeather_MemoryOnly(P, fails) ==
    IF Due(P.age.weather, weather_interval)
    THEN TimerNow(
           IF weather_entity # ""
           THEN LET ok == RequestOk(P.hub, fails, "weather")
                    new_data == GetWeather(P.hub, ok)
                    C == Attempted(Call(P, "get_weather", weather_entity, 0, ok), "weather")
                IN IF Raises(P.hub, fails, "weather") THEN [C EXCEPT !.raised = TRUE]
                   ELSE IF new_data # 0
                   THEN [C EXCEPT !.self.weather_data = new_data]
                   ELSE C
           ELSE P, "weather")
    ELSE P

\* update_data: "Update weather"
UpdateWeather(P, fails) ==
    IF Due(P.age.weather, weather_interval)
    THEN TimerNow(
           IF weather_entity # ""
           THEN LET ok == RequestOk(P.hub, fails, "weather")
                    new_data == GetWeather(P.hub, ok)
                    C == Attempted(Call(P, "get_weather", weather_entity, 0, ok), "weather")
                IN IF Raises(P.hub, fails, "weather") THEN [C EXCEPT !.raised = TRUE]
                   ELSE IF new_data # 0
                   THEN CacheSet([C EXCEPT !.self.weather_data = new_data], "weather", new_data)
                   ELSE C
           ELSE P, "weather")
    ELSE P

\* update_data: "Update forecast"
UpdateForecast(P, fails) ==
    IF Due(P.age.forecast, forecast_interval)
    THEN TimerNow(
           IF weather_entity # ""
           THEN LET ok == RequestOk(P.hub, fails, "forecast")
                    new_forecast == GetWeatherForecast(P.hub, ok)
                    C == Attempted(Call(P, "get_weather_forecast", weather_entity, 0, ok), "forecast")
                IN IF Raises(P.hub, fails, "forecast") THEN [C EXCEPT !.raised = TRUE]
                   ELSE IF new_forecast # <<>>
                   THEN CacheSet([C EXCEPT !.self.forecast_data = new_forecast], "forecast", new_forecast)
                   ELSE C
           ELSE P, "forecast")
    ELSE P

\* for task_entity in self.task_lists: new_items.extend(get_todo_items(...))
RECURSIVE TodoLoop(_, _, _)
TodoLoop(P, i, fails) ==
    IF i > Len(task_lists) THEN P
    ELSE LET ok == RequestOk(P.hub, fails, task_lists[i])
             C == Attempted(Call(P, "get_todo_items", task_lists[i], 0, ok), "tasks")
         IN IF Raises(P.hub, fails, task_lists[i]) THEN [C EXCEPT !.raised = TRUE]
            ELSE TodoLoop([C EXCEPT !.acc = @ \o GetTodoItems(P.hub, task_lists[i], ok)], i + 1, fails)

\* Mutant: the task refresh stores whatever it fetched.
UpdateTasks_AlwaysOverwrite(P, fails) ==
    IF Due(P.age.tasks, tasks_interval)
    THEN LET L == TodoLoop([P EXCEPT !.acc = <<>>], 1, fails)
             new_items == L.acc
         IN TimerNow(CacheSet([L EXCEPT !.self.task_items = new_items], "tasks", new_items),
                     "tasks")
    ELSE P

\* update_data: "Update tasks"
UpdateTasks(P, fails) ==
    IF Due(P.age.tasks, tasks_interval)
    THEN LET L == TodoLoop([P EXCEPT !.acc = <<>>], 1, fails)
             new_items == L.acc
         IN TimerNow(
              IF L.raised THEN L
              ELSE IF new_items # <<>> \/ L.self.task_items = <<>>
              THEN CacheSet([L EXCEPT !.self.task_items = new_items], "tasks", new_items)
              ELSE L, "tasks")
    ELSE P

\* for cal_entity in self.calendars: all_events.extend(get_calendar_events(...))
RECURSIVE CalendarLoop(_, _, _)
CalendarLoop(P, i, fails) ==
    IF i > Len(calendars) THEN P
    ELSE LET ok == RequestOk(P.hub, fails, calendars[i])
             C == Attempted(Call(P, "get_calendar_events", calendars[i], 0, ok), "calendar")
         IN IF Raises(P.hub, fails, calendars[i]) THEN [C EXCEPT !.raised = TRUE]
            ELSE CalendarLoop([C EXCEPT !.acc = @ \o GetCalendarEvents(P.hub, calendars[i], ok)],
                              i + 1, fails)

\* Mutant: events dated before today are put in the today bucket too.
UpdateCalendar_KeepPast(P, fails) ==
    IF Due(P.age.calendar, calendar_interval)
    THEN LET L == CalendarLoop([P EXCEPT !.acc = <<>>], 1, fails)
             all_events == SortByStart(L.acc)
             today_events == SelectSeq(all_events, LAMBDA e : e[1] <= today)
             upcoming_events == SelectSeq(all_events, LAMBDA e : e[1] > today)
             M == [L EXCEPT !.self.calendar_today = today_events,
                            !.self.calendar_upcoming = FirstN(upcoming_events, 7)]
         IN TimerNow(CacheSet(CacheSet(M, "calendar_today", today_events),
                              "calendar_upcoming", FirstN(upcoming_events, 7)), "calendar")
    ELSE P

\* update_data: "Update calendar"
UpdateCalendar(P, fails) ==
    IF Due(P.age.calendar, calendar_interval)
    THEN LET L == CalendarLoop([P EXCEPT !.acc = <<>>], 1, fails)
             all_events == SortByStart(L.acc)
             today_events == SelectSeq(all_events, LAMBDA e : e[1] = today)
             upcoming_events == SelectSeq(all_events, LAMBDA e : e[1] > today)
             M == [L EXCEPT !.self.calendar_today = today_events,
                            !.self.calendar_upcoming = FirstN(upcoming_events, 7)]
         IN IfNotRaised(L, TimerNow(CacheSet(CacheSet(M, "calendar_today", today_events),
                                             "calendar_upcoming", FirstN(upcoming_events, 7)),
                                    "calendar"))
    ELSE P

\* update_data: "Update mailbox sensor"
UpdateMailbox(P, fails) ==
    IF Due(P.age.mailbox, mailbox_interval)
    THEN TimerNow(
           IF mailbox_entity # ""
           THEN LET ok == RequestOk(P.hub, fails, "mailbox")
                    new_data == GetBinarySensor(P.hub, ok)
                    C == Attempted(Call(P, "get_binary_sensor", mailbox_entity, 0, ok), "mailbox")
                IN IF Raises(P.hub, fails, "mailbox") THEN [C EXCEPT !.raised = TRUE]
                   ELSE IF new_data # 0
                   THEN CheckMailboxOpenedToday(
                            CacheSet([C EXCEPT !.self.mailbox_data = new_data], "mailbox", new_data),
                            fails)
                   ELSE C
           ELSE P, "mailbox")
    ELSE P

\* Mutant: the sun refresh stores whatever the fetch returned.
UpdateSun_StoreEmpty(P, fails) ==
    IF Due(P.age.sun, sun_interval)
    THEN LET ok == RequestOk(P.hub, fails, "sun")
             sun_state == GetSunState(P.hub, ok)
             C == Attempted(Call(P, "get_state", sun_entity, 0, ok), "sun")
         IN TimerNow(CacheSet([C EXCEPT !.self.sun_data = sun_state], "sun_data", sun_state), "sun")
    ELSE P

\* update_data: "Update sun data"
UpdateSun(P, fails) ==
    IF Due(P.age.sun, sun_interval)
    THEN LET ok == RequestOk(P.hub, fails, "sun")
             sun_state == GetSunState(P.hub, ok)
             C == Attempted(Call(P, "get_state", sun_entity, 0, ok), "sun")
         IN TimerNow(IF Raises(P.hub, fails, "sun") THEN [C EXCEPT !.raised = TRUE]
                     ELSE IF sun_state # 0
                     THEN CacheSet([C EXCEPT !.self.sun_data = sun_state], "sun_data", sun_state)
                     ELSE C, "sun")
    ELSE P

\* update_data: the refresh pass that follows the connectivity check
RefreshPass(P, fails) ==
    Only({IfNotRaised(P5, UpdateSun(P5, fails)) : P5 \in
      {IfNotRaised(P4, UpdateMailbox(P4, fails)) : P4 \in
        {IfNotRaised(P3, UpdateCalendar(P3, fails)) : P3 \in
          {IfNotRaised(P2, UpdateTasks(P2, fails)) : P2 \in
            {IfNotRaised(P1, UpdateForecast(P1, fails)) : P1 \in
              {UpdateWeather(P0, fails) : P0 \in {P}}}}}}})

\* Mutant: the refresh pass runs although the hub is flagged unreachable.
UpdateData_NoSkip(P, fails, oks) == RefreshPass(CheckHAConnection(P, oks), fails)

\* Mutant: the refresh pass runs before the connectivity check and the drain.
UpdateData_RefreshFirst(P, fails, oks) ==
    CheckHAConnection(IF P.self.ha_connected THEN RefreshPass(P, fails) ELSE P, oks)

\* update_data
UpdateData(P, fails, oks) ==
    IfNotRaised(P,
      Only({IF ~C.self.ha_connected THEN C ELSE RefreshPass(C, fails) :
              C \in {CheckHAConnection(P, oks)}}))

\* ---------------------------------------------------------- process
\* Pi0Display.__init__ on the cache file d: the cache is loaded, the display
\* fields are read from it, the quote of the day is stored when the cached one
\* is not today's, every timer is 0 and the hub is assumed connected.
NewProcess(d, h) ==
    LET c == Load(d)
        P == [self |-> [weather_data |-> c.weather,
                        forecast_data |-> c.forecast,
                        task_items |-> c.tasks,
                        calendar_today |-> c.calendar_today,
                        calendar_upcoming |-> c.calendar_upcoming,
                        mailbox_data |-> c.mailbox,
                        mailbox_opened_today |-> c.mailbox_opened_today,
                        mailbox_opened_time |-> c.mailbox_opened_time,
                        mailbox_cleared |-> c.mailbox_cleared,
                        sun_data |-> c.sun_data,
                        mailbox_check_date |-> c.mailbox_check_date,
                        mailbox_check_on |-> FALSE,
                        forecast_mode |-> FALSE,
                        pending_actions |-> c.pending_actions,
                        ha_connected |-> TRUE],
              cache |-> c, disk |-> d, hub |-> h,
              age |-> [weather |-> Never, forecast |-> Never, tasks |-> Never,
                       calendar |-> Never, mailbox |-> Never, sun |-> Never,
                       ha_check |-> Never],
              sf |-> [x \in Domains |-> Never],
              trace |-> <<>>, removed |-> {}, acc |-> <<>>, raised |-> FALSE]
    IN IF c.quote_date = today THEN P ELSE CacheSet(P, "quote_date", today)

\* The running process, at the start of a handler.
Process ==
    [self |-> self, cache |-> cache, disk |-> disk, hub |-> hub, age |-> age,
     sf |-> since_fetch, trace |-> <<>>, removed |-> {}, acc |-> <<>>, raised |-> FALSE]

\* The state a handler that makes no hub call leaves.
CommitQuiet(P) ==
    /\ self' = P.self
    /\ age' = P.age
    /\ UNCHANGED <<cache, disk, hub, since_fetch, trace, op, pc, today, disk_ok>>

\* The state a handler leaves.
Commit(P, name, next) ==
    /\ self' = P.self
    /\ cache' = P.cache
    /\ disk' = P.disk
    /\ hub' = P.hub
    /\ age' = P.age
    /\ since_fetch' = P.sf
    /\ trace' = P.trace
    /\ op' = name
    /\ pc' = next
    /\ UNCHANGED <<today, disk_ok>>

\* The hub's part of a step: which requests fail, which completions succeed.
Reconnects(P) == Due(P.age.ha_check, ha_check_interval) /\ ~P.self.ha_connected /\ P.hub.up
DomainEndpoints(d) ==
    CASE d = "weather" -> {"weather"}
      [] d = "forecast" -> {"forecast"}
      [] d = "tasks" -> Range(task_lists)
      [] d = "calendar" -> Range(calendars)
      [] d = "mailbox" -> {"mailbox", "switch", "history"}
      [] d = "sun" -> {"sun"}
DueEndpoints(P) ==
    UNION {DomainEndpoints(d) : d \in {x \in Domains : Reconnects(P) \/ Due(P.age[x], Interval(x))}}
FailSets(P) ==
    IF P.hub.up /\ ~P.hub.api_ok THEN SUBSET (DueEndpoints(P) \cap P.hub.flaky) ELSE {{}}
OkSets(P, n) == IF P.hub.up /\ ~P.hub.api_ok THEN SUBSET (1..n) ELSE {{}}

InitialHub ==
    [up |-> TRUE, api_ok |-> TRUE, weather |-> 1, forecast |-> <<1>>, tasks |-> Uids,
     calendar |-> <<<<1, 2, 1>>, <<2, 0, 2>>>>, mailbox |-> 1, switch_on |-> FALSE,
     first_open |-> 0, sun |-> 1, malformed |-> {}, flaky |-> Endpoints, varies |-> {}]

Init ==
    /\ today = 1
    /\ disk_ok = TRUE
    /\ hub \in {[InitialHub EXCEPT !.up = u] : u \in BOOLEAN}
    /\ LET P == NewProcess([valid |-> FALSE, data |-> CacheDefaults], hub)
       IN /\ self = P.self
          /\ cache = P.cache
          /\ disk = P.disk
          /\ age = P.age
          /\ since_fetch = P.sf
    /\ trace = <<>>
    /\ op = "__init__"
    /\ pc = "run"

\* ---------------------------------------------------------- actions
\* run(), up to the main loop: the first probe, then three update_data calls,
\* before which the weather, calendar and tasks timers are set to 0.
RunProbe(P) ==
    TimerNow(Call([P EXCEPT !.self.ha_connected = P.hub.up],
                  "_check_ha_connection", "", 0, P.hub.up), "ha_check")
RunWeather(P) == [RunProbe(P) EXCEPT !.age.weather = Never]
RunCalendar(P, f1) ==
    Only({IfNotRaised(U, [U EXCEPT !.age.calendar = Never]) : U \in {UpdateData(RunWeather(P), f1, {})}})
RunTasks(P, f1, f2) ==
    Only({IfNotRaised(U, [U EXCEPT !.age.tasks = Never]) : U \in {UpdateData(RunCalendar(P, f1), f2, {})}})
Run(P, f1, f2, f3) == UpdateData(RunTasks(P, f1, f2), f3, {})

RunStartup ==
    /\ pc = "run"
    /\ \E f1 \in FailSets(RunWeather(Process)) :
         \E f2 \in FailSets(RunCalendar(Process, f1)) :
           \E f3 \in FailSets(RunTasks(Process, f1, f2)) :
             \E Q \in {Run(Process, f1, f2, f3)} :
               Commit(Q, "run", IF Q.raised THEN "crashed" ELSE "loop")

\* self.clock.tick(1): dt seconds pass between two frames of the main loop.
ClockTick(P, dt) ==
    [P EXCEPT !.age = [x \in DOMAIN @ |-> Older(@[x], dt)],
              !.sf = [x \in DOMAIN @ |-> Older(@[x], dt)]]

\* One frame of the main loop: the sleep of clock.tick(1), then update_data
\* (the events of the frame are the user's actions below).
Frame(P, dt, fails, oks) == Only({UpdateData(T, fails, oks) : T \in {ClockTick(P, dt)}})

UpdateDataStep ==
    /\ pc = "loop"
    /\ \E dt \in 1..MaxStep :
         \E fails \in FailSets(ClockTick(Process, dt)),
            oks \in OkSets(Process, Len(self.pending_actions)) :
              \E Q \in {Frame(Process, dt, fails, oks)} :
                Commit(Q, "update_data", IF Q.raised THEN "crashed" ELSE "loop")

\* _handle_task_scroll_touch: the user touches a listed task and confirms
\* the dialog, which calls _complete_task with that task.
CompleteTask ==
    /\ pc = "loop"
    /\ ~self.forecast_mode
    /\ Len(self.pending_actions) < MaxQueue
    /\ \E i \in 1..Len(self.task_items), oks \in OkSets(Process, 1) :
         \E Q \in {CompleteTaskHandler(Process, self.task_items[i], oks)} :
           Commit(Q, "_complete_task", "loop")

\* _handle_touch: a touch on the weather tile toggles the forecast view.
TouchWeatherHandler(P) ==
    LET T == [P EXCEPT !.self.forecast_mode = ~@]
    IN IF T.self.forecast_mode /\ T.self.forecast_data = <<>>
       THEN [T EXCEPT !.age.forecast = Never] ELSE T

TouchWeather ==
    /\ pc = "loop"
    /\ CommitQuiet(TouchWeatherHandler(Process))

\* Mutant: the 'r' key resets the sun timer too.
KeyRHandler_AlsoSun(P) ==
    [P EXCEPT !.age.weather = Never, !.age.tasks = Never,
              !.age.calendar = Never, !.age.mailbox = Never, !.age.sun = Never]

\* run(): the 'r' key forces a refresh.
KeyRHandler(P) ==
    [P EXCEPT !.age.weather = Never, !.age.tasks = Never,
              !.age.calendar = Never, !.age.mailbox = Never]

KeyR ==
    /\ pc = "loop"
    /\ CommitQuiet(KeyRHandler(Process))

\* The process is stopped between two handlers and started again.
Restart ==
    /\ pc = "loop"
    /\ Commit(NewProcess(disk, hub), "__init__", "run")

\* The process dies in the replay loop of _process_pending_actions, after the
\* calls for the first n queued actions, and is started again.
CrashInDrain ==
    /\ pc = "loop"
    /\ \E dt \in 1..MaxStep, n \in 1..Len(self.pending_actions),
          oks \in OkSets(Process, Len(self.pending_actions)) :
         LET P0 == ClockTick(Process, dt)
             P == ReplayLoop(P0, 1, n, oks)
         IN /\ Reconnects(P0)
            /\ Commit([NewProcess(disk, P.hub) EXCEPT !.trace = P.trace], "crash_in_drain", "run")

\* The environment: the hub goes down or comes back.
HubUpDown ==
    /\ hub' = [hub EXCEPT !.up = ~@]
    /\ UNCHANGED <<self, cache, disk, age, today, disk_ok, pc, op, trace, since_fetch>>

Next ==
    \/ RunStartup
    \/ UpdateDataStep
    \/ CompleteTask
    \/ TouchWeather
    \/ KeyR
    \/ Restart
    \/ CrashInDrain
    \/ HubUpDown

Spec == Init /\ [][Next]_vars

\* The main loop of run() never stops: a frame follows every frame, and the
\* startup sequence runs to its end.  The process is not killed.
FairNext ==
    \/ RunStartup
    \/ UpdateDataStep
    \/ CompleteTask
    \/ HubUpDown

FairSpec == Init /\ [][FairNext]_vars /\ WF_vars(UpdateDataStep) /\ WF_vars(RunStartup)

\* _process_pending_actions on its own: a process that has loaded a queue from
\* its cache file, facing a hub that answers each completion call with a
\* success or an error of its choosing.
MaxDrain == 3
DrainQueues ==
    UNION {[1..n -> {Action(task_lists[1], u) : u \in Uids}] : n \in 0..MaxDrain}

DrainInit ==
    /\ today = 1
    /\ disk_ok = TRUE
    /\ hub = [InitialHub EXCEPT !.api_ok = FALSE]
    /\ \E q \in DrainQueues :
         LET P == NewProcess([valid |-> TRUE,
                              data |-> [CacheDefaults EXCEPT !.pending_actions = q]], hub)
         IN /\ self = P.self
            /\ cache = P.cache
            /\ disk = P.disk
            /\ age = P.age
            /\ since_fetch = P.sf
    /\ trace = <<>>
    /\ op = "__init__"
    /\ pc = "drain"

Drain ==
    /\ pc = "drain"
    /\ \E oks \in OkSets(Process, Len(self.pending_actions)) :
         Commit(ProcessPendingActions(Process, oks), "_process_pending_actions", "drain")

\* _queue_pending_action on its own, for a completion of task u.
Enqueue ==
    /\ pc = "drain"
    /\ Len(self.pending_actions) < MaxDrain
    /\ \E u \in Uids :
         \E Q \in {QueuePendingAction(Process, task_lists[1], u)} :
           Commit(Q, "_queue_pending_action", "drain")

DrainSpec == DrainInit /\ [][Drain \/ Enqueue]_vars

\* ------------------------------------------------------------ claims
\* Reading the hub calls of a handler.
IsProbe(e) == e[1] = "_check_ha_connection"
IsDrain(e) == e[1] \in {"_process_pending_actions", "complete_todo_item"}
IsFetch(e) ==
    e[1] \in {"get_weather", "get_weather_forecast", "get_todo_items", "get_calendar_events",
              "get_binary_sensor", "get_state", "get_sensor_history_today"}
CallDomain(e) ==
    CASE e[1] = "get_weather" -> "weather"
      [] e[1] = "get_weather_forecast" -> "forecast"
      [] e[1] = "get_todo_items" -> "tasks"
      [] e[1] = "get_calendar_events" -> "calendar"
      [] e[1] = "get_state" /\ e[2] = sun_entity -> "sun"
      [] OTHER -> "mailbox"
FetchedIn(tr, d) == \E i \in 1..Len(tr) : IsFetch(tr[i]) /\ CallDomain(tr[i]) = d
Count(tr, name) == Cardinality({i \in 1..Len(tr) : tr[i][1] = name})

\* C1: an update_data call that leaves the hub flagged unreachable after its
\* connectivity check issues no hub fetch and leaves every cached value as it
\* was; checked for every frame of the main loop and for the startup calls.
C1_UnreachableNoFetch ==
    /\ pc = "loop" =>
         \A dt \in 1..MaxStep :
           \A fails \in FailSets(ClockTick(Process, dt)),
              oks \in OkSets(Process, Len(self.pending_actions)) :
             LET Q == Frame(Process, dt, fails, oks)
             IN ~Q.self.ha_connected =>
                  /\ \A i \in 1..Len(Q.trace) : ~IsFetch(Q.trace[i])
                  /\ Q.cache = cache
    /\ pc = "run" =>
         \A f1 \in FailSets(RunWeather(Process)) :
           \A f2 \in FailSets(RunCalendar(Process, f1)) :
             \A f3 \in FailSets(RunTasks(Process, f1, f2)) :
               LET Q == Run(Process, f1, f2, f3)
               IN ~Q.self.ha_connected =>
                    /\ \A i \in 1..Len(Q.trace) : ~IsFetch(Q.trace[i])
                    /\ Q.cache = cache

\* C1 witness: update_data has run with the hub flagged unreachable while the
\* cache held data and the weather fetch was long overdue.
C1_Witness ==
    /\ op = "update_data"
    /\ ~self.ha_connected
    /\ cache.weather # 0
    /\ since_fetch.weather = AgeCap
    /\ \A i \in 1..Len(trace) : ~IsFetch(trace[i])

\* C5: in a frame whose probe turns the flag from unreachable to reachable,
\* exactly one drain pass runs and every domain is fetched in the refresh
\* pass of that frame, however recently it was fetched before.
C5_ReconnectDrainsOnceRefreshesAll ==
    pc = "loop" =>
      \A dt \in 1..MaxStep :
        \A fails \in FailSets(ClockTick(Process, dt)),
           oks \in OkSets(Process, Len(self.pending_actions)) :
          LET Q == Frame(Process, dt, fails, oks)
          IN (~self.ha_connected /\ Q.self.ha_connected) =>
               /\ Count(Q.trace, "_process_pending_actions") = 1
               /\ \A d \in Domains : FetchedIn(Q.trace, d) /\ Q.age[d] = 0

\* C5 witness: a reconnect frame has replayed a queued action and fetched
\* every domain.
C5_Witness ==
    /\ op = "update_data"
    /\ Count(trace, "_process_pending_actions") = 1
    /\ Count(trace, "complete_todo_item") >= 1
    /\ \A d \in Domains : FetchedIn(trace, d)

\* C9 as stated: in one update_data call the probe precedes every fetch and
\* every fetch precedes the drain.
C9_FetchesBeforeDrain ==
    op = "update_data" =>
      \A i, j \in 1..Len(trace) :
        /\ (IsProbe(trace[i]) /\ IsFetch(trace[j])) => i < j
        /\ (IsFetch(trace[i]) /\ IsDrain(trace[j])) => i < j

\* C9 amended: in one update_data call the probe precedes the drain and every
\* fetch, and the drain precedes every fetch.
C9_ProbeDrainFetches ==
    op = "update_data" =>
      \A i, j \in 1..Len(trace) :
        /\ (IsProbe(trace[i]) /\ (IsFetch(trace[j]) \/ IsDrain(trace[j]))) => i < j
        /\ (IsDrain(trace[i]) /\ IsFetch(trace[j])) => i < j

\* C9 witness: an update_data call has probed, replayed an action and fetched.
C9_Witness ==
    /\ op = "update_data"
    /\ \E i, j, k \in 1..Len(trace) :
         /\ i < j /\ j < k
         /\ IsProbe(trace[i])
         /\ trace[j][1] = "complete_todo_item"
         /\ IsFetch(trace[k])

\* The fetch attempts of domain d among the calls tr: an attempt is one call
\* per configured entity of the domain.
IsAttemptCall(e, d) ==
    /\ IsFetch(e)
    /\ CallDomain(e) = d
    /\ e[1] \notin {"get_sensor_history_today"}
    /\ e[2] # mailbox_check_switch
CallsPerAttempt(d) ==
    CASE d = "tasks" -> Len(task_lists)
      [] d = "calendar" -> Len(calendars)
      [] OTHER -> 1
AttemptCalls(tr, d) == Cardinality({i \in 1..Len(tr) : IsAttemptCall(tr[i], d)})
FailedIn(tr, d) == \E i \in 1..Len(tr) : IsAttemptCall(tr[i], d) /\ ~tr[i][4]

\* C3 as stated: whenever a frame without an unreachable-to-reachable
\* transition attempts a fetch of a domain, the previous attempt for that
\* domain (if any) lies at least the domain's interval back; and the startup
\* sequence attempts every domain at most once.
C3_AttemptsSpaced ==
    /\ pc = "loop" =>
         \A dt \in 1..MaxStep :
           \A fails \in FailSets(ClockTick(Process, dt)),
              oks \in OkSets(Process, Len(self.pending_actions)) :
             LET T == ClockTick(Process, dt)
                 Q == Frame(Process, dt, fails, oks)
             IN ~(~self.ha_connected /\ Q.self.ha_connected) =>
                  \A d \in Domains :
                    FetchedIn(Q.trace, d) => (T.sf[d] = Never \/ T.sf[d] >= Interval(d))
    /\ pc = "run" =>
         \A f1 \in FailSets(RunWeather(Process)) :
           \A f2 \in FailSets(RunCalendar(Process, f1)) :
             \A f3 \in FailSets(RunTasks(Process, f1, f2)) :
               LET Q == Run(Process, f1, f2, f3)
               IN \A d \in Domains : AttemptCalls(Q.trace, d) <= CallsPerAttempt(d)

\* C3 amended: whenever a frame without an unreachable-to-reachable
\* transition attempts a fetch of a domain, the previous attempt for that
\* domain (if any) lies at least the domain's interval back, also when that
\* attempt failed, unless the domain's timer has been set to zero since (by
\* the forced-refresh key, a successful task completion or the toggle into an
\* empty forecast view); the startup sequence attempts calendar and tasks
\* twice and every other domain at most once.
C3_AttemptsSpacedUnlessForced ==
    /\ pc = "loop" =>
         \A dt \in 1..MaxStep :
           \A fails \in FailSets(ClockTick(Process, dt)),
              oks \in OkSets(Process, Len(self.pending_actions)) :
             LET T == ClockTick(Process, dt)
                 Q == Frame(Process, dt, fails, oks)
             IN ~(~self.ha_connected /\ Q.self.ha_connected) =>
                  \A d \in Domains :
                    FetchedIn(Q.trace, d) =>
                      (T.sf[d] = Never \/ T.sf[d] >= Interval(d) \/ age[d] = Never)
    /\ pc = "run" =>
         \A f1 \in FailSets(RunWeather(Process)) :
           \A f2 \in FailSets(RunCalendar(Process, f1)) :
             \A f3 \in FailSets(RunTasks(Process, f1, f2)) :
               LET Q == Run(Process, f1, f2, f3)
               IN \A d \in Domains :
                    AttemptCalls(Q.trace, d) <=
                      (IF d \in {"calendar", "tasks"} THEN 2 ELSE 1) * CallsPerAttempt(d)

\* C3 witness: a frame has attempted the weather fetch a second time, the
\* attempt failed, and the weather timer restarted all the same.
C3_Witness ==
    /\ op = "update_data"
    /\ FailedIn(trace, "weather")
    /\ cache.weather # 0
    /\ age.weather = 0
    /\ since_fetch.weather = 0

\* The cached value of a domain.
DomainCache(c, d) ==
    CASE d = "weather" -> <<c.weather>>
      [] d = "forecast" -> <<c.forecast>>
      [] d = "tasks" -> <<c.tasks>>
      [] d = "calendar" -> <<c.calendar_today, c.calendar_upcoming>>
      [] d = "mailbox" -> <<c.mailbox>>
      [] d = "sun" -> <<c.sun_data>>

\* C4: a frame in which a fetch of a domain fails leaves the cached value of
\* that domain (both calendar buckets included) as it was before the frame.
C4_FailedFetchKeepsCache ==
    pc = "loop" =>
      \A dt \in 1..MaxStep :
        \A fails \in FailSets(ClockTick(Process, dt)),
           oks \in OkSets(Process, Len(self.pending_actions)) :
          LET Q == Frame(Process, dt, fails, oks)
          IN \A d \in Domains :
               FailedIn(Q.trace, d) => DomainCache(Q.cache, d) = DomainCache(cache, d)

\* C2: if from some point on the hub stays reachable and answers, the offline
\* queue is eventually empty and stays empty (every queued action has been
\* replayed), under the fairness of the main loop.
C2_QueuedActionsDelivered ==
    <>[](hub.up /\ hub.api_ok) => <>[](self.pending_actions = <<>>)

\* The completion calls among the calls tr.
Completions(tr) == SelectSeq(tr, LAMBDA e : e[1] = "complete_todo_item")

\* C6: after a crash inside the replay loop and a restart from the cache
\* file, at most one of the actions whose replay had succeeded at the hub is
\* still in the reloaded queue.
C6_CrashLeavesAtMostOneApplied ==
    op = "crash_in_drain" =>
      Cardinality({i \in 1..Len(Completions(trace)) :
                     /\ Completions(trace)[i][4]
                     /\ i <= Len(self.pending_actions)
                     /\ self.pending_actions[i].task_uid = Completions(trace)[i][3]}) <= 1

\* C7: one drain pass calls the hub once for every queued action, in queue
\* order; the queue it leaves, in memory and on disk, is the actions whose
\* call failed, in their order; a failure does not stop the pass; and when
\* the 2nd of 3 actions fails, a second pass in which it succeeds empties
\* the queue.
C7_DrainRemovesExactlySucceeded ==
    pc = "drain" =>
      \A oks \in OkSets(Process, Len(self.pending_actions)) :
        LET q == self.pending_actions
            Q == ProcessPendingActions(Process, oks)
            calls == Completions(Q.trace)
            failed == Ascending((1..Len(q)) \ oks)
            rest == [k \in 1..Len(failed) |-> q[failed[k]]]
            R == ProcessPendingActions([Q EXCEPT !.trace = <<>>], {1})
        IN /\ Len(calls) = Len(q)
           /\ \A i \in 1..Len(q) :
                calls[i] = <<"complete_todo_item", q[i].entity_id, q[i].task_uid, i \in oks>>
           /\ Q.self.pending_actions = rest
           /\ q # <<>> => Q.disk.data.pending_actions = rest
           /\ (Len(q) = 3 /\ oks = {1, 3}) =>
                /\ Q.self.pending_actions = <<q[2]>>
                /\ R.self.pending_actions = <<>>
                /\ Len(Completions(R.trace)) = 1

\* C7 witness: a drain pass over 3 actions has succeeded for the 1st and the
\* 3rd and failed for the 2nd, which alone remains.
C7_Witness ==
    /\ op = "_process_pending_actions"
    /\ Len(Completions(trace)) = 3
    /\ Completions(trace)[1][4] /\ ~Completions(trace)[2][4] /\ Completions(trace)[3][4]
    /\ Len(self.pending_actions) = 1
    /\ self.pending_actions[1].task_uid = Completions(trace)[2][3]

\* What _complete_task leaves in the queue when it enqueues.
Enqueued(P, Q, uid) ==
    /\ Q.self.pending_actions = Append(P.self.pending_actions, Action(task_lists[1], uid))
    /\ Q.disk.valid
    /\ Q.disk.data.pending_actions = Q.self.pending_actions

\* C8 as stated: completing a listed task calls the hub exactly once; the
\* queue is unchanged when the call succeeds, and gets one action for the
\* task at its tail, persisted, when the call fails.
C8_CompleteAttemptsOnce ==
    pc = "loop" =>
      \A i \in 1..Len(self.task_items), oks \in OkSets(Process, 1) :
        LET uid == self.task_items[i]
            Q == CompleteTaskHandler(Process, uid, oks)
        IN /\ Len(Completions(Q.trace)) = 1
           /\ Q.trace[1][4] => Q.self.pending_actions = self.pending_actions
           /\ ~Q.trace[1][4] => Enqueued(Process, Q, uid)

\* C8 amended: completing a listed task while the hub is flagged reachable
\* calls the hub exactly once; the queue is unchanged when the call succeeds,
\* and gets one action for the task at its tail, persisted, when the call
\* fails.  While the hub is flagged unreachable no call is made and the
\* action is appended at the tail and persisted.
C8_CompleteAttemptsOnceIfReachable ==
    pc = "loop" =>
      \A i \in 1..Len(self.task_items), oks \in OkSets(Process, 1) :
        LET uid == self.task_items[i]
            Q == CompleteTaskHandler(Process, uid, oks)
        IN IF self.ha_connected
           THEN /\ Len(Q.trace) = 1
                /\ Q.trace[1][1] = "complete_todo_item"
                /\ Q.trace[1][2] = task_lists[1]
                /\ Q.trace[1][3] = uid
                /\ Q.trace[1][4] => /\ Q.self.pending_actions = self.pending_actions
                                    /\ Q.disk.data.pending_actions = disk.data.pending_actions
                /\ ~Q.trace[1][4] => Enqueued(Process, Q, uid)
           ELSE /\ Q.trace = <<>>
                /\ Enqueued(Process, Q, uid)

\* C8 witness: a completion was attempted once while the hub was flagged
\* reachable, failed, and its action is the second of the persisted queue.
C8_Witness ==
    /\ op = "_complete_task"
    /\ self.ha_connected
    /\ Len(trace) = 1
    /\ ~trace[1][4]
    /\ Len(self.pending_actions) = 2
    /\ self.pending_actions[2].task_uid = trace[1][3]
    /\ self.pending_actions[1].task_uid # trace[1][3]
    /\ disk.data.pending_actions = self.pending_actions

\* C10 as stated: no step of the running process other than a frame with an
\* unreachable-to-reachable transition leaves a domain timer at zero that
\* was not at zero, or starts a drain pass.
C10_OnlyReconnectResets ==
    [][pc' = "loop" =>
         /\ \A d \in Domains : age'[d] = Never => age[d] = Never
         /\ (op' # op \/ trace' # trace) =>
              (Count(trace', "_process_pending_actions") > 0 =>
                 (op' = "update_data" /\ ~self.ha_connected /\ self'.ha_connected))]_vars

\* C10 amended: a frame with an unreachable-to-reachable transition is the
\* only step that starts a drain pass.  A step of the running process that
\* leaves a domain timer at zero that was not at zero is the forced-refresh
\* key (weather, tasks, calendar, mailbox), a task completion whose hub call
\* succeeded (tasks) or a toggle into the forecast view while no forecast is
\* held (forecast); the startup sequence sets to zero the calendar and tasks
\* timers only, which it fetches twice.
C10_ResetsOnlyByNamedEvents ==
    [][/\ pc' = "loop" =>
          /\ \A d \in Domains :
               (age'[d] = Never /\ age[d] # Never) =>
                  \/ KeyR /\ d \in {"weather", "tasks", "calendar", "mailbox"}
                  \/ /\ CompleteTask
                     /\ d = "tasks"
                     /\ self.ha_connected
                     /\ trace'[1][4]
                  \/ /\ TouchWeather
                     /\ d = "forecast"
                     /\ self'.forecast_mode
                     /\ self.forecast_data = <<>>
          /\ (op' # op \/ trace' # trace) =>
               (Count(trace', "_process_pending_actions") > 0 =>
                  (op' = "update_data" /\ ~self.ha_connected /\ self'.ha_connected))
       /\ RunStartup =>
            \A d \in Domains :
              AttemptCalls(trace', d) <=
                (IF d \in {"calendar", "tasks"} THEN 2 ELSE 1) * CallsPerAttempt(d)]_vars

\* C10 witness: the forced-refresh key has set the weather, tasks, calendar
\* and mailbox timers to zero while the sun and forecast timers run on, with
\* the hub flagged reachable and no drain pass in the last frame.
C10_Witness ==
    /\ pc = "loop"
    /\ self.ha_connected
    /\ op = "update_data"
    /\ Count(trace, "_process_pending_actions") = 0
    /\ \A d \in {"weather", "tasks", "calendar", "mailbox"} : age[d] = Never
    /\ \A d \in {"sun", "forecast"} : age[d] # Never /\ age[d] > 0

\* The queued actions at the indices that are not in S, in their order.
Without(q, S) ==
    LET keep == Ascending((1..Len(q)) \ S)
    IN [k \in 1..Len(keep) |-> q[keep[k]]]

\* C11: every step leaves the offline queue as it was, or appends one action
\* to it (a task completion), or is a drain pass that calls the hub for the
\* queued actions in enqueue order and removes exactly those whose own call
\* succeeded; a restart reloads the queue as it was.
C11_QueueChangesOnlyByAppendOrDrain ==
    [][\/ self'.pending_actions = self.pending_actions
       \/ /\ op' = "_complete_task"
          /\ \E u \in Uids :
               self'.pending_actions = Append(self.pending_actions, Action(task_lists[1], u))
       \/ /\ op' = "update_data"
          /\ Count(trace', "_process_pending_actions") = 1
          /\ LET q == self.pending_actions
                 calls == Completions(trace')
             IN /\ Len(calls) = Len(q)
                /\ \A i \in 1..Len(q) :
                     /\ calls[i][2] = q[i].entity_id
                     /\ calls[i][3] = q[i].task_uid
                /\ self'.pending_actions =
                     Without(q, {i \in 1..Len(q) : calls[i][4]})]_vars

\* C11 witness: a drain pass has replayed two different queued actions in
\* their enqueue order and removed both.
C11_Witness ==
    /\ op = "update_data"
    /\ Count(trace, "_process_pending_actions") = 1
    /\ Len(Completions(trace)) = 2
    /\ Completions(trace)[1][3] # Completions(trace)[2][3]
    /\ Completions(trace)[1][4] /\ Completions(trace)[2][4]
    /\ self.pending_actions = <<>>

\* The items the hub holds, list by list in the configured order.
RECURSIVE HubItems(_, _)
HubItems(h, i) ==
    IF i > Len(task_lists) THEN <<>>
    ELSE Ascending({u \in h.tasks : ListOf(u) = task_lists[i]}) \o HubItems(h, i + 1)

\* C12: a frame that refreshes the tasks keeps the cached task list when the
\* combined result is empty and the cached list is not, and overwrites the
\* cache with the combined result otherwise.
C12_EmptyResultKeepsTasks ==
    pc = "loop" =>
      \A dt \in 1..MaxStep :
        \A fails \in FailSets(ClockTick(Process, dt)),
           oks \in OkSets(Process, Len(self.pending_actions)) :
          LET Q == Frame(Process, dt, fails, oks)
              result == IF Q.hub.up THEN HubItems(Q.hub, 1) ELSE <<>>
          IN FetchedIn(Q.trace, "tasks") =>
               Q.cache.tasks = (IF result = <<>> /\ cache.tasks # <<>> THEN cache.tasks
                                ELSE result)

\* C12 witness: a task refresh has come back empty and the cached tasks are
\* still there.
C12_Witness ==
    /\ op = "update_data"
    /\ FetchedIn(trace, "tasks")
    /\ ~hub.up
    /\ cache.tasks # <<>>
    /\ age.tasks = 0

\* C15: after a task completion that enqueued and after a drain pass, the
\* queue in the cache file is the queue in memory, and a process started
\* from that file holds the same actions in the same order.
C15_PersistedQueueIsMemoryQueue ==
    (\/ op = "_complete_task"
     \/ op = "update_data" /\ Count(trace, "_process_pending_actions") = 1) =>
       /\ disk.valid
       /\ disk.data.pending_actions = self.pending_actions
       /\ NewProcess(disk, hub).self.pending_actions = self.pending_actions

\* C15 witness: a drain pass has left an empty queue in memory and in the
\* file after replaying a queued action, and before it an enqueue had left a
\* queue of one in both.
C15_Witness ==
    /\ op = "update_data"
    /\ Count(trace, "_process_pending_actions") = 1
    /\ Len(Completions(trace)) >= 1
    /\ disk.data.pending_actions = self.pending_actions

\* update_data facing a hub that is reachable and misbehaves: every request
\* fails or not at the hub's choice, and the endpoints of hub.malformed answer
\* with a body of unexpected shape when they answer.  The requests that may
\* fail are those to the endpoints of hub.flaky.

FlakyInit ==
    /\ today = 1
    /\ disk_ok = TRUE
    /\ hub \in {[InitialHub EXCEPT !.api_ok = FALSE,
                                    !.flaky = {"weather", task_lists[1], calendars[1], "mailbox"},
                                    !.malformed = m] :
                 m \in {{}, {"weather"}, {task_lists[2]}, {"history"}}}
    /\ LET P == NewProcess([valid |-> FALSE, data |-> CacheDefaults], hub)
       IN /\ self = P.self
          /\ cache = P.cache
          /\ disk = P.disk
          /\ age = P.age
          /\ since_fetch = P.sf
    /\ trace = <<>>
    /\ op = "__init__"
    /\ pc = "run"

FlakySpec == FlakyInit /\ [][RunStartup \/ UpdateDataStep]_vars

\* _handle_touch acknowledging whatever turn_off_switch returned.
TouchMailboxHandler_IgnoreResult(P, oks) ==
    IF P.self.mailbox_check_on /\ P.self.ha_connected
    THEN LET ok == P.hub.up /\ (P.hub.api_ok \/ 1 \in oks)
             C == Call([P EXCEPT !.hub.switch_on = IF ok THEN FALSE ELSE @],
                       "turn_off_switch", mailbox_check_switch, 0, ok)
             A == [C EXCEPT !.self.mailbox_check_on = FALSE,
                            !.self.mailbox_cleared = TRUE,
                            !.self.mailbox_opened_today = FALSE,
                            !.self.mailbox_opened_time = 0]
         IN CacheSet(CacheSet(CacheSet(A, "mailbox_cleared", TRUE),
                              "mailbox_opened_today", FALSE), "mailbox_opened_time", 0)
    ELSE P

\* _handle_touch: a touch on the mailbox icon acknowledges the mail by turning
\* the check-mailbox switch off at the hub.
TouchMailboxHandler(P, oks) ==
    IF P.self.mailbox_check_on /\ P.self.ha_connected
    THEN LET ok == P.hub.up /\ (P.hub.api_ok \/ 1 \in oks)
             C == Call([P EXCEPT !.hub.switch_on = IF ok THEN FALSE ELSE @],
                       "turn_off_switch", mailbox_check_switch, 0, ok)
             A == [C EXCEPT !.self.mailbox_check_on = FALSE,
                            !.self.mailbox_cleared = TRUE,
                            !.self.mailbox_opened_today = FALSE,
                            !.self.mailbox_opened_time = 0]
         IN IF ok
            THEN CacheSet(CacheSet(CacheSet(A, "mailbox_cleared", TRUE),
                                   "mailbox_opened_today", FALSE), "mailbox_opened_time", 0)
            ELSE C
    ELSE P

TouchMailbox ==
    /\ pc = "loop"
    /\ \E oks \in OkSets(Process, 1) :
         \E Q \in {TouchMailboxHandler(Process, oks)} :
           Commit(Q, "_handle_touch", "loop")

\* The display in its home: the hub's entities change (hub.varies names
\* those that do; a payload of 0 or <<>> is an empty answer) and the requests
\* to the endpoints of flaky fail or not at the hub's choice.
MaxDay == 2
HubValues(f) ==
    CASE f = "weather" -> {0, 1, 2}
      [] f = "forecast" -> {<<>>, <<1>>}
      [] f = "mailbox" -> {0, 1}
      [] f = "sun" -> {0, 1}
      [] f = "switch_on" -> BOOLEAN
      [] f = "first_open" -> {0, 9}

HomeInit(varies, flaky) ==
    /\ today = 1
    /\ disk_ok = TRUE
    /\ hub = [InitialHub EXCEPT !.api_ok = FALSE, !.varies = varies, !.flaky = flaky]
    /\ LET P == NewProcess([valid |-> FALSE, data |-> CacheDefaults], hub)
       IN /\ self = P.self
          /\ cache = P.cache
          /\ disk = P.disk
          /\ age = P.age
          /\ since_fetch = P.sf
    /\ trace = <<>>
    /\ op = "__init__"
    /\ pc = "run"

HubChange ==
    /\ \E f \in hub.varies : \E v \in HubValues(f) \ {hub[f]} : hub' = [hub EXCEPT ![f] = v]
    /\ UNCHANGED <<self, cache, disk, age, today, disk_ok, pc, op, trace, since_fetch>>

\* date.today() moves on.
DayChange ==
    /\ today < MaxDay
    /\ today' = today + 1
    /\ UNCHANGED <<self, cache, disk, age, hub, disk_ok, pc, op, trace, since_fetch>>

\* The payloads of weather, forecast, mailbox sensor and sun change.
PayloadSpec ==
    /\ HomeInit({"weather", "forecast", "mailbox", "sun"},
                {"weather", "forecast", "mailbox", "sun"})
    /\ [][RunStartup \/ UpdateDataStep \/ HubChange]_vars

\* The check-mailbox switch and the mailbox history change, the user touches
\* the mailbox icon, the hub goes down and comes back, the day passes, the
\* process is restarted.
MailboxSpec ==
    /\ HomeInit({"switch_on", "first_open"}, {"switch"})
    /\ [][\/ RunStartup
          \/ UpdateDataStep
          \/ TouchMailbox
          \/ HubChange
          \/ DayChange
          \/ HubUpDown
          \/ Restart]_vars

\* ------------------------------------------------ DataCache in detail
\* A JSON value as Python holds it: None, a bool, a number, a string, a list
\* of values, or a dict, kept as its sequence of <<key, value>> in insertion
\* order.
JNull == <<"null">>
JBool(b) == <<"bool", b>>
JNum(n) == <<"num", n>>
JStr(s) == <<"str", s>>
JList(items) == <<"list", items>>
JDict(pairs) == <<"dict", pairs>>

\* Equality of two dict keys: True and 1, False and 0 are the same key.
KeyEq(a, b) ==
    \/ a = b
    \/ a[1] = "bool" /\ b[1] = "num" /\ b[2] = (IF a[2] THEN 1 ELSE 0)
    \/ a[1] = "num" /\ b[1] = "bool" /\ a[2] = (IF b[2] THEN 1 ELSE 0)

\* The position of key k in a dict's pairs, 0 when it is absent.
RECURSIVE DictFind(_, _)
DictFind(pairs, k) ==
    IF pairs = <<>> THEN 0
    ELSE IF KeyEq(pairs[Len(pairs)][1], k) THEN Len(pairs)
    ELSE DictFind(SubSeq(pairs, 1, Len(pairs) - 1), k)

\* d[k] = v
DictSet(pairs, k, v) ==
    LET i == DictFind(pairs, k)
    IN IF i = 0 THEN Append(pairs, <<k, v>>) ELSE [pairs EXCEPT ![i] = <<pairs[i][1], v>>]

\* The text of a file is a sequence of JSON tokens: punctuation and the
\* literals null, true, false (<<"p", text>>), numbers (<<"n", value>>) and
\* strings (<<"s", value>>).
\* json.dump turns a key that is not a string into one.
KeyText(k) ==
    CASE k[1] = "str" -> k[2]
      [] k[1] = "num" -> <<"0", "1", "2", "3", "4", "5", "6", "7", "8", "9">>[k[2] + 1]
      [] k[1] = "bool" -> IF k[2] THEN "true" ELSE "false"
      [] OTHER -> "null"

\* json.dump
RECURSIVE JsonDump(_), DumpItems(_), DumpPairs(_)
JsonDump(v) ==
    CASE v[1] = "null" -> <<<<"p", "null">>>>
      [] v[1] = "bool" -> <<<<"p", IF v[2] THEN "true" ELSE "false">>>>
      [] v[1] = "num" -> <<<<"n", v[2]>>>>
      [] v[1] = "str" -> <<<<"s", v[2]>>>>
      [] v[1] = "list" -> <<<<"p", "[">>>> \o DumpItems(v[2]) \o <<<<"p", "]">>>>
      [] OTHER -> <<<<"p", "{">>>> \o DumpPairs(v[2]) \o <<<<"p", "}">>>>
DumpItems(items) ==
    IF items = <<>> THEN <<>>
    ELSE IF Len(items) = 1 THEN JsonDump(items[1])
    ELSE JsonDump(items[1]) \o <<<<"p", ",">>>> \o DumpItems(Tail(items))
DumpPairs(pairs) ==
    IF pairs = <<>> THEN <<>>
    ELSE LET first == <<<<"s", KeyText(pairs[1][1])>>, <<"p", ":">>>> \o JsonDump(pairs[1][2])
         IN IF Len(pairs) = 1 THEN first
            ELSE first \o <<<<"p", ",">>>> \o DumpPairs(Tail(pairs))

\* json.load: a recursive-descent parse of the tokens from position i; the
\* result holds the value read and the position after it, or ok = FALSE.
ParseError == [ok |-> FALSE, v |-> JNull, i |-> 0]
Parsed(v, i) == [ok |-> TRUE, v |-> v, i |-> i]
IsPunct(t, i, s) == i <= Len(t) /\ t[i][1] = "p" /\ t[i][2] = s
RECURSIVE ParseValue(_, _), ParseItems(_, _, _), ParsePairs(_, _, _)
ParseValue(t, i) ==
    IF i > Len(t) THEN ParseError
    ELSE IF t[i][1] = "n" THEN Parsed(JNum(t[i][2]), i + 1)
    ELSE IF t[i][1] = "s" THEN Parsed(JStr(t[i][2]), i + 1)
    ELSE IF t[i][2] = "null" THEN Parsed(JNull, i + 1)
    ELSE IF t[i][2] = "true" THEN Parsed(JBool(TRUE), i + 1)
    ELSE IF t[i][2] = "false" THEN Parsed(JBool(FALSE), i + 1)
    ELSE IF t[i][2] = "["
         THEN IF IsPunct(t, i + 1, "]") THEN Parsed(JList(<<>>), i + 2)
              ELSE ParseItems(t, i + 1, <<>>)
    ELSE IF t[i][2] = "{"
         THEN IF IsPunct(t, i + 1, "}") THEN Parsed(JDict(<<>>), i + 2)
              ELSE ParsePairs(t, i + 1, <<>>)
    ELSE ParseError
ParseItems(t, i, items) ==
    LET r == ParseValue(t, i)
    IN IF ~r.ok THEN ParseError
       ELSE IF IsPunct(t, r.i, ",") THEN ParseItems(t, r.i + 1, Append(items, r.v))
       ELSE IF IsPunct(t, r.i, "]") THEN Parsed(JList(Append(items, r.v)), r.i + 1)
       ELSE ParseError
ParsePairs(t, i, pairs) ==
    IF i + 1 > Len(t) \/ t[i][1] # "s" \/ ~IsPunct(t, i + 1, ":") THEN ParseError
    ELSE LET r == ParseValue(t, i + 2)
             next == DictSet(pairs, JStr(t[i][2]), r.v)
         IN IF ~r.ok THEN ParseError
            ELSE IF IsPunct(t, r.i, ",") THEN ParsePairs(t, r.i + 1, next)
            ELSE IF IsPunct(t, r.i, "}") THEN Parsed(JDict(next), r.i + 1)
            ELSE ParseError
\* The whole text must be one value.
JsonLoad(t) ==
    LET r == ParseValue(t, 1)
    IN IF r.ok /\ r.i = Len(t) + 1 THEN [ok |-> TRUE, v |-> r.v] ELSE [ok |-> FALSE, v |-> JNull]

\* What one element of the iterable given to dict.update contributes: a list
\* of two values, a string of two characters or a dict of two keys gives a
\* key and a value; a list or dict as the key, or any other element, raises.
PairOf(e) ==
    IF e[1] = "list" /\ Len(e[2]) = 2
    THEN [ok |-> e[2][1][1] \notin {"list", "dict"}, k |-> e[2][1], v |-> e[2][2]]
    ELSE IF e[1] = "str" /\ Len(e[2]) = 2
    THEN [ok |-> TRUE, k |-> JStr(SubSeq(e[2], 1, 1)), v |-> JStr(SubSeq(e[2], 2, 2))]
    ELSE IF e[1] = "dict" /\ Len(e[2]) = 2
    THEN [ok |-> TRUE, k |-> e[2][1][1], v |-> e[2][2][1]]
    ELSE [ok |-> FALSE, k |-> JNull, v |-> JNull]

RECURSIVE UpdateFromItems(_, _)
UpdateFromItems(data, items) ==
    IF items = <<>> THEN [data |-> data, raised |-> FALSE]
    ELSE LET p == PairOf(items[1])
         IN IF p.ok THEN UpdateFromItems(DictSet(data, p.k, p.v), Tail(items))
            ELSE [data |-> data, raised |-> TRUE]

RECURSIVE UpdateFromPairs(_, _)
UpdateFromPairs(data, pairs) ==
    IF pairs = <<>> THEN data
    ELSE UpdateFromPairs(DictSet(data, pairs[1][1], pairs[1][2]), Tail(pairs))

\* dict.update(other): a dict is merged; any other iterable is read as pairs,
\* those before an element that raises being kept; the characters of a
\* string are not pairs; None, a bool or a number is not iterable.
DictUpdate(data, other) ==
    CASE other[1] = "dict" -> [data |-> UpdateFromPairs(data, other[2]), raised |-> FALSE]
      [] other[1] = "list" -> UpdateFromItems(data, other[2])
      [] other[1] = "str" -> [data |-> data, raised |-> other[2] # ""]
      [] OTHER -> [data |-> data, raised |-> TRUE]

\* DataCache.__init__: self.data
DataDefaults ==
    <<<<JStr("weather"), JNull>>,
      <<JStr("tasks"), JList(<<>>)>>,
      <<JStr("calendar_today"), JList(<<>>)>>,
      <<JStr("calendar_upcoming"), JList(<<>>)>>,
      <<JStr("mailbox"), JNull>>,
      <<JStr("mailbox_opened_today"), JBool(FALSE)>>,
      <<JStr("mailbox_opened_time"), JNull>>,
      <<JStr("last_update"), JDict(<<>>)>>>>

\* The cache file: whether it exists, whether it can be opened for reading,
\* and its text.
NoFile == [exists |-> FALSE, readable |-> FALSE, text |-> <<>>]
TextFile(text) == [exists |-> TRUE, readable |-> TRUE, text |-> text]

\* DataCache._load: every exception is caught and logged as a warning.
DataCacheLoad(data, file) ==
    IF ~file.exists THEN [data |-> data, warned |-> FALSE, raised |-> FALSE]
    ELSE IF ~file.readable THEN [data |-> data, warned |-> TRUE, raised |-> FALSE]
    ELSE LET loaded == JsonLoad(file.text)
         IN IF ~loaded.ok THEN [data |-> data, warned |-> TRUE, raised |-> FALSE]
            ELSE LET u == DictUpdate(data, loaded.v)
                 IN [data |-> u.data, warned |-> u.raised, raised |-> FALSE]

\* DataCache.__init__
DataCacheInit(file) == DataCacheLoad(DataDefaults, file)

\* DataCache.save: open(path, 'w') fails and leaves the file as it was
\* (written < 0), or truncates the file, of which json.dump then writes the
\* first `written` tokens before it fails, or all of them.
DataCacheSave(data, file, written) ==
    IF written < 0 THEN file
    ELSE [exists |-> TRUE, readable |-> (file.exists => file.readable),
          text |-> SubSeq(JsonDump(JDict(data)), 1, written)]

\* DataCache.get
DataCacheGet(data, key, default) ==
    LET i == DictFind(data, JStr(key)) IN IF i = 0 THEN default ELSE data[i][2]

\* Mutant: the file is written before the value is stored.
DataCacheSet_SaveFirst(data, file, key, value, written) ==
    [data |-> DictSet(data, JStr(key), value),
     file |-> DataCacheSave(data, file, written), raised |-> FALSE]

\* Mutant: the value is dropped when the file could not be written.
DataCacheSet_Rollback(data, file, key, value, written) ==
    LET new == DictSet(data, JStr(key), value)
    IN [data |-> IF written = Len(JsonDump(JDict(new))) THEN new ELSE data,
        file |-> DataCacheSave(new, file, written), raised |-> FALSE]

\* DataCache.set
DataCacheSet(data, file, key, value, written) ==
    LET new == DictSet(data, JStr(key), value)
    IN [data |-> new, file |-> DataCacheSave(new, file, written), raised |-> FALSE]

\* The outcomes of a save of data: all of the text written when the storage
\* works; else the open fails (-1) or the write stops after a prefix, one of
\* the first MaxWritten tokens or all but the last.
MaxWritten == 1
Complete(data) == Len(JsonDump(JDict(data)))
WriteOutcomes(data, ok) ==
    LET all == Complete(data)
    IN IF ok THEN {all} ELSE {-1} \cup {n \in 0..(all - 1) : n <= MaxWritten \/ n = all - 1}

\* The DataCache on its own: the keys and the values given to set, up to
\* MaxOps calls of set and restarts of the process, on a storage that works or
\* fails at the environment's choice.
MaxOps == 2
\* A key whose default is None, one whose default is a list, and one that
\* self.data does not hold at first.
CacheKeys == {"weather", "tasks", "pending_actions"}
JsonValues ==
    {JNull, JNum(1), JList(<<JStr("a"), JBool(TRUE)>>),
     JDict(<<<<JStr("a"), JList(<<JBool(FALSE)>>)>>, <<JStr("b"), JDict(<<>>)>>>>)}

CacheInitWith(files) ==
    /\ today = 1
    /\ disk_ok = TRUE
    /\ hub = InitialHub
    /\ LET P == NewProcess([valid |-> FALSE, data |-> CacheDefaults], hub)
       IN /\ self = P.self
          /\ age = P.age
          /\ since_fetch = P.sf
    /\ disk \in files
    /\ cache = DataCacheInit(disk).data
    /\ trace = <<>>
    /\ op = "__init__"
    /\ pc = "cache"


\* cache.set(key, v)
CacheSetStep ==
    /\ pc = "cache"
    /\ Len(trace) < MaxOps
    /\ \E key \in CacheKeys, v \in JsonValues :
         \E written \in WriteOutcomes(DictSet(cache, JStr(key), v), disk_ok) :
           \E R \in {DataCacheSet(cache, disk, key, v, written)} :
             /\ cache' = R.data
             /\ disk' = R.file
             /\ trace' = Append(trace, <<"set", key, v, disk_ok>>)
             /\ op' = "set"
    /\ UNCHANGED <<self, age, hub, today, disk_ok, pc, since_fetch>>

\* The process ends and a new one builds its DataCache from the file.
CacheRestart ==
    /\ pc = "cache"
    /\ Len(trace) < MaxOps
    /\ cache' = DataCacheInit(disk).data
    /\ trace' = Append(trace, <<"__init__", "", JNull, TRUE>>)
    /\ op' = "__init__"
    /\ UNCHANGED <<self, age, hub, today, disk, disk_ok, pc, since_fetch>>

\* The storage starts or stops accepting writes.
StorageChange ==
    /\ pc = "cache"
    /\ disk_ok' = ~disk_ok
    /\ UNCHANGED <<self, cache, disk, age, hub, today, pc, op, trace, since_fetch>>

CacheNext ==
    \/ CacheSetStep
    \/ CacheRestart
    \/ StorageChange

CacheSpec == CacheInitWith({NoFile}) /\ [][CacheNext]_vars

\* The same, started on a cache file that the process did not write: none, an
\* unreadable one, text that is not JSON, and JSON of every kind.
ForeignValues ==
    {JNull, JBool(TRUE), JNum(1), JStr(""), JStr("a"), JStr("ab"),
     JList(<<>>), JList(<<JNum(1)>>), JList(<<JStr("ab")>>),
     JList(<<JList(<<JStr("weather"), JNum(1)>>)>>),
     JList(<<JList(<<JStr("tasks"), JNum(7)>>), JNum(5)>>),
     JList(<<JList(<<JList(<<>>), JNum(1)>>)>>),
     JList(<<JDict(<<<<JStr("mailbox"), JNum(1)>>, <<JStr("x"), JNum(2)>>>>)>>),
     JDict(<<>>), JDict(<<<<JStr("weather"), JNum(1)>>>>)}
ForeignFiles ==
    {NoFile, [TextFile(JsonDump(JDict(DataDefaults))) EXCEPT !.readable = FALSE]}
    \cup {TextFile(JsonDump(v)) : v \in ForeignValues}
    \cup {TextFile(SubSeq(JsonDump(JDict(DataDefaults)), 1, n)) : n \in {0, 1, 2, 4}}
    \cup {TextFile(<<<<"p", "}">>>>), TextFile(<<<<"p", "[">>, <<"n", 1>>, <<"p", ",">>, <<"p", "]">>>>),
          TextFile(<<<<"n", 1>>, <<"n", 1>>>>)}

LoadSpec == CacheInitWith(ForeignFiles) /\ [][CacheNext]_vars

\* --------------------------------------------- HomeAssistantAPI in detail
\* What the hub gives to one request: no answer (transport error), an HTTP
\* error status, a body that is not JSON, or a JSON body.
Response(kind, body) == [kind |-> kind, body |-> body]

\* The outcome of a call: the value returned, or an exception raised.
Return(v) == [raised |-> FALSE, value |-> v]
Raise == [raised |-> TRUE, value |-> JNull]

\* Python's reading of JSON values: truth, d.get(key, default) (an
\* AttributeError unless d is a dict), the elements a for loop visits (of a
\* list, a string or a dict; a TypeError otherwise), and v[:n] (of a list or
\* a string; an error otherwise).
Truthy(v) ==
    CASE v[1] = "null" -> FALSE
      [] v[1] = "bool" -> v[2]
      [] v[1] = "num" -> v[2] # 0
      [] v[1] = "str" -> v[2] # ""
      [] OTHER -> v[2] # <<>>
PyGet(d, key, default) ==
    LET i == DictFind(d[2], JStr(key)) IN IF i = 0 THEN default ELSE d[2][i][2]
Elements(v) ==
    CASE v[1] = "list" -> v[2]
      [] v[1] = "str" -> [i \in 1..Len(v[2]) |-> JStr(SubSeq(v[2], i, i))]
      [] OTHER -> [i \in 1..Len(v[2]) |-> v[2][i][1]]
Slice(v, n) == <<v[1], SubSeq(v[2], 1, IF Len(v[2]) < n THEN Len(v[2]) ELSE n)>>

\* _request: every error is caught and gives None; else the decoded body.
ApiRequest(resp) == IF resp.kind = "json" THEN resp.body ELSE JNull

\* get_state
ApiGetState(entity, resp) == Return(ApiRequest(resp))

\* "°" not in temp_unit (the degree sign is written ^ here): a test on a
\* string, a list or a dict, a TypeError on anything else.
HasDegree(unit) ==
    IF unit[1] = "str" THEN \E i \in 1..Len(unit[2]) : SubSeq(unit[2], i, i) = "^"
    ELSE \E i \in 1..Len(Elements(unit)) : Elements(unit)[i] = JStr("^")

\* get_weather
ApiGetWeather(entity, resp) ==
    LET state == ApiRequest(resp)
    IN IF ~Truthy(state) THEN Return(JNull)
       ELSE IF state[1] # "dict" THEN Raise
       ELSE LET attrs == PyGet(state, "attributes", JDict(<<>>))
            IN IF attrs[1] # "dict" THEN Raise
               ELSE LET temp_unit == PyGet(attrs, "temperature_unit", JStr("^F"))
                    IN IF temp_unit[1] \notin {"list", "str", "dict"} THEN Raise
                       ELSE Return(JDict(<<
                              <<JStr("state"), PyGet(state, "state", JStr("unknown"))>>,
                              <<JStr("temperature"), PyGet(attrs, "temperature", JNull)>>,
                              <<JStr("temperature_unit"),
                                IF HasDegree(temp_unit) THEN temp_unit
                                ELSE IF temp_unit[1] = "str" THEN JStr("^" \o temp_unit[2])
                                ELSE JStr("^...")>>,
                              <<JStr("friendly_name"), PyGet(attrs, "friendly_name", JStr("Weather"))>>>>))

\* result.get("service_response", {}).get(entity_id, {}).get(key, []), of
\* get_weather_forecast and get_todo_items
ServiceResponseList(result, entity, key) ==
    IF result[1] # "dict" THEN Raise
    ELSE LET service_response == PyGet(result, "service_response", JDict(<<>>))
         IN IF service_response[1] # "dict" THEN Raise
            ELSE LET entity_data == PyGet(service_response, entity, JDict(<<>>))
                 IN IF entity_data[1] # "dict" THEN Raise
                    ELSE Return(PyGet(entity_data, key, JList(<<>>)))

\* The list comprehension of get_weather_forecast over the elements fs.
RECURSIVE ForecastRows(_, _)
ForecastRows(fs, rows) ==
    IF fs = <<>> THEN Return(JList(rows))
    ELSE IF fs[1][1] # "dict" THEN Raise
    ELSE LET datetime == PyGet(fs[1], "datetime", JStr(""))
         IN IF datetime[1] \notin {"list", "str"} THEN Raise
            ELSE ForecastRows(Tail(fs), Append(rows, JDict(<<
                   <<JStr("date"), Slice(datetime, 10)>>,
                   <<JStr("condition"), PyGet(fs[1], "condition", JStr(""))>>,
                   <<JStr("temperature"), PyGet(fs[1], "temperature", JNull)>>>>)))

\* get_weather_forecast
ApiGetWeatherForecast(entity, resp) ==
    LET result == ApiRequest(resp)
    IN IF ~Truthy(result) THEN Return(JList(<<>>))
       ELSE LET forecasts == ServiceResponseList(result, entity, "forecast")
            IN IF forecasts.raised \/ forecasts.value[1] \notin {"list", "str"} THEN Raise
               ELSE ForecastRows(Elements(Slice(forecasts.value, 6)), <<>>)

\* The list comprehension of get_todo_items over the elements items.
RECURSIVE TodoRows(_, _)
TodoRows(items, rows) ==
    IF items = <<>> THEN Return(JList(rows))
    ELSE IF items[1][1] # "dict" THEN Raise
    ELSE TodoRows(Tail(items), Append(rows, JDict(<<
           <<JStr("uid"), PyGet(items[1], "uid", JStr(""))>>,
           <<JStr("summary"), PyGet(items[1], "summary", JStr(""))>>,
           <<JStr("status"), PyGet(items[1], "status", JStr(""))>>>>)))

\* get_todo_items
ApiGetTodoItems(entity, resp) ==
    LET result == ApiRequest(resp)
    IN IF ~Truthy(result) THEN Return(JList(<<>>))
       ELSE LET items == ServiceResponseList(result, entity, "items")
            IN IF items.raised \/ items.value[1] \notin {"list", "str", "dict"} THEN Raise
               ELSE TodoRows(Elements(items.value), <<>>)

\* complete_todo_item
ApiCompleteTodoItem(entity, resp) == Return(JBool(ApiRequest(resp) # JNull))

\* turn_off_switch
ApiTurnOffSwitch(entity, resp) == Return(JBool(ApiRequest(resp) # JNull))

\* The loop of get_calendar_events over the list result.
RECURSIVE CalendarRows(_, _)
CalendarRows(result, events) ==
    IF result = <<>> THEN Return(JList(events))
    ELSE IF result[1][1] # "dict" THEN Raise
    ELSE LET start_info == PyGet(result[1], "start", JDict(<<>>))
         IN IF start_info[1] # "dict" THEN Raise
            ELSE LET dateTime == PyGet(start_info, "dateTime", JNull)
                     start_str == IF Truthy(dateTime) THEN dateTime
                                  ELSE PyGet(start_info, "date", JStr(""))
                 IN CalendarRows(Tail(result), Append(events, JDict(<<
                      <<JStr("summary"), PyGet(result[1], "summary", JStr("No Title"))>>,
                      <<JStr("start"), start_str>>>>)))

\* get_calendar_events
ApiGetCalendarEvents(entity, resp) ==
    LET result == ApiRequest(resp)
    IN IF ~Truthy(result) \/ result[1] # "list" THEN Return(JList(<<>>))
       ELSE CalendarRows(result[2], <<>>)

\* get_binary_sensor
ApiGetBinarySensor(entity, resp) ==
    LET state == ApiRequest(resp)
    IN IF ~Truthy(state) THEN Return(JNull)
       ELSE IF state[1] # "dict" THEN Raise
       ELSE LET attributes == PyGet(state, "attributes", JDict(<<>>))
            IN IF attributes[1] # "dict" THEN Raise
               ELSE Return(JDict(<<
                      <<JStr("state"), PyGet(state, "state", JStr("unknown"))>>,
                      <<JStr("last_changed"), PyGet(state, "last_changed", JNull)>>,
                      <<JStr("friendly_name"), PyGet(attributes, "friendly_name", JStr(entity))>>>>))

\* The loop of get_sensor_history_today over the elements of result[0]: the
\* last_changed of the first entry whose state is "on".
RECURSIVE FirstOn(_)
FirstOn(history) ==
    IF history = <<>> THEN Return(JNull)
    ELSE IF history[1][1] # "dict" THEN Raise
    ELSE IF PyGet(history[1], "state", JNull) = JStr("on")
         THEN Return(PyGet(history[1], "last_changed", JNull))
    ELSE FirstOn(Tail(history))

\* get_sensor_history_today
ApiGetSensorHistoryToday(entity, resp) ==
    LET result == ApiRequest(resp)
    IN IF ~Truthy(result) \/ result[1] # "list" THEN Return(JNull)
       ELSE IF result[2][1][1] \notin {"list", "str", "dict"} THEN Raise
       ELSE FirstOn(Elements(result[2][1]))

\* The client on its own: each operation, for the entity client_entity, on
\* each answer of the hub: the errors, JSON bodies that are not objects,
\* objects and lists with null or a scalar where a string, an object or a
\* list is expected, and well-formed bodies.
client_entity == "sensor.x"
Obj1(k, v) == JDict(<<<<JStr(k), v>>>>)
ServiceBody(key, v) == Obj1("service_response", Obj1(client_entity, Obj1(key, v)))
Bodies ==
    {JNull, JBool(TRUE), JNum(0), JNum(1), JStr(""), JStr("a"), JList(<<>>), JList(<<JNull>>),
     JList(<<JNum(1)>>), JList(<<JStr("a")>>), JList(<<JList(<<>>)>>), JDict(<<>>),
     Obj1("state", JStr("on")),
     JDict(<<<<JStr("state"), JStr("sunny")>>,
             <<JStr("attributes"), Obj1("temperature_unit", JStr("C"))>>>>),
     Obj1("attributes", JNull),
     Obj1("attributes", Obj1("temperature_unit", JNull)),
     Obj1("service_response", JNull),
     Obj1("service_response", Obj1(client_entity, JNull)),
     ServiceBody("forecast", JNull),
     ServiceBody("forecast", JList(<<JNull>>)),
     ServiceBody("forecast", JList(<<Obj1("datetime", JNull)>>)),
     ServiceBody("forecast", JList(<<Obj1("datetime", JStr("2024-01-10T00:00:00"))>>)),
     ServiceBody("items", JNull),
     ServiceBody("items", JList(<<JStr("a")>>)),
     ServiceBody("items", JList(<<Obj1("uid", JStr("u1"))>>)),
     JList(<<Obj1("start", JNull)>>),
     JList(<<Obj1("start", Obj1("dateTime", JStr("2024-01-10T09:00:00Z")))>>),
     JList(<<Obj1("start", Obj1("date", JStr("2024-01-10")))>>),
     JList(<<JList(<<JNull>>)>>),
     JList(<<JList(<<Obj1("state", JNull)>>)>>),
     JList(<<JList(<<JDict(<<<<JStr("state"), JStr("on")>>, <<JStr("last_changed"), JStr("t")>>>>),
                     JNull>>)>>)}
Responses ==
    {Response(k, JNull) : k \in {"transport_error", "http_error", "undecodable"}}
    \cup {Response("json", b) : b \in Bodies}

Operations ==
    {"get_state", "get_weather", "get_weather_forecast", "get_todo_items", "complete_todo_item",
     "get_calendar_events", "get_binary_sensor", "get_sensor_history_today", "turn_off_switch"}
ClientCall(name, entity, resp) ==
    CASE name = "get_state" -> ApiGetState(entity, resp)
      [] name = "get_weather" -> ApiGetWeather(entity, resp)
      [] name = "get_weather_forecast" -> ApiGetWeatherForecast(entity, resp)
      [] name = "get_todo_items" -> ApiGetTodoItems(entity, resp)
      [] name = "complete_todo_item" -> ApiCompleteTodoItem(entity, resp)
      [] name = "get_calendar_events" -> ApiGetCalendarEvents(entity, resp)
      [] name = "get_binary_sensor" -> ApiGetBinarySensor(entity, resp)
      [] name = "get_sensor_history_today" -> ApiGetSensorHistoryToday(entity, resp)
      [] OTHER -> ApiTurnOffSwitch(entity, resp)

\* Before any call: hub holds the answer to the last request, trace the call
\* made of it, as <<operation, entity, value returned, whether it returned>>.
ClientInit ==
    /\ today = 1
    /\ disk_ok = TRUE
    /\ hub = Response("transport_error", JNull)
    /\ LET P == NewProcess([valid |-> FALSE, data |-> CacheDefaults], InitialHub)
       IN /\ self = P.self
          /\ cache = P.cache
          /\ disk = P.disk
          /\ age = P.age
          /\ since_fetch = P.sf
    /\ trace = <<>>
    /\ op = "__init__"
    /\ pc = "client"

\* One call of the client, answered by the hub as it chooses.
ClientCallStep ==
    /\ pc = "client"
    /\ \E name \in Operations, resp \in Responses :
         \E R \in {ClientCall(name, client_entity, resp)} :
           /\ hub' = resp
           /\ op' = name
           /\ trace' = <<<<name, client_entity, R.value, ~R.raised>>>>
    /\ UNCHANGED <<self, cache, disk, age, today, disk_ok, pc, since_fetch>>

ClientSpec == ClientInit /\ [][ClientCallStep]_vars

\* The calendar block of update_data on its own: the hub holds any list of up
\* to MaxEvents events, each with no start (day 0), a date (time of day 0) or
\* a date and a time of day; today is day 2, so day 1 is yesterday.
MaxEvents == 3
CalendarLists ==
    LET Starts == {<<0, 0>>} \cup {<<d, t>> : d \in 1..3, t \in 0..2}
    IN UNION {{[i \in 1..n |-> <<f[i][1], f[i][2], i>>] : f \in [1..n -> Starts]} :
                n \in 0..MaxEvents}

CalendarInit ==
    /\ today = 2
    /\ disk_ok = TRUE
    /\ hub \in {[InitialHub EXCEPT !.api_ok = FALSE, !.calendar = evs] : evs \in CalendarLists}
    /\ LET P == NewProcess([valid |-> FALSE, data |-> CacheDefaults], hub)
       IN /\ self = P.self
          /\ cache = P.cache
          /\ disk = P.disk
          /\ age = P.age
          /\ since_fetch = P.sf
    /\ trace = <<>>
    /\ op = "__init__"
    /\ pc = "calendar"

CalendarRefresh ==
    /\ pc = "calendar"
    /\ \E fails \in SUBSET Range(calendars) :
         \E Q \in {UpdateCalendar(ClockTick(Process, 1), fails)} :
           Commit(Q, "update_data", "calendar")

CalendarSpec == CalendarInit /\ [][CalendarRefresh]_vars

\* C14: enqueueing the same action twice appends two entries to the queue,
\* and a drain pass in which every replay succeeds then calls the hub once
\* for every entry, twice for that action, and leaves the queue empty in
\* memory and in the cache file.
C14_NoDeduplication ==
    pc = "drain" =>
      \A u \in Uids :
        LET q == self.pending_actions
            a == Action(task_lists[1], u)
            E1 == QueuePendingAction(Process, task_lists[1], u)
            E2 == QueuePendingAction(E1, task_lists[1], u)
            D == ProcessPendingActions([E2 EXCEPT !.trace = <<>>], 1..(Len(q) + 2))
            calls == Completions(D.trace)
        IN /\ E1.self.pending_actions = q \o <<a>>
           /\ E2.self.pending_actions = q \o <<a, a>>
           /\ E2.disk.data.pending_actions = q \o <<a, a>>
           /\ Len(calls) = Len(q) + 2
           /\ \A i \in 1..Len(calls) : calls[i][4]
           /\ calls[Len(q) + 1][3] = u /\ calls[Len(q) + 2][3] = u
           /\ D.self.pending_actions = <<>>
           /\ D.disk.data.pending_actions = <<>>

\* C14 witness: the same completion was enqueued twice into an empty queue
\* and a drain pass has replayed it twice, with success, and emptied the queue.
C14_Witness ==
    /\ op = "_process_pending_actions"
    /\ Len(Completions(trace)) = 2
    /\ Completions(trace)[1] = Completions(trace)[2]
    /\ Completions(trace)[1][4]
    /\ self.pending_actions = <<>>
    /\ disk.data.pending_actions = <<>>

\* C20: after a calendar refresh the today bucket holds exactly the fetched
\* events whose start date is today, each once, the upcoming bucket holds only
\* fetched events dated after today, and an event dated before today (or with
\* no start) is in neither; the events of 2024-01-10T09:00Z and
\* 2024-01-09T08:00Z with today = 2024-01-10 give a today bucket of the first
\* alone and an empty upcoming bucket.
C20_CalendarBuckets ==
    pc = "calendar" =>
      \A fails \in SUBSET Range(calendars) :
        LET Q == UpdateCalendar(ClockTick(Process, 1), fails)
            fetched == IF calendars[1] \in fails THEN {} ELSE Range(hub.calendar)
            today_bucket == Q.cache.calendar_today
            upcoming_bucket == Q.cache.calendar_upcoming
        IN FetchedIn(Q.trace, "calendar") =>
             /\ Range(today_bucket) = {e \in fetched : e[1] = today}
             /\ Len(today_bucket) = Cardinality(Range(today_bucket))
             /\ Range(upcoming_bucket) \subseteq {e \in fetched : e[1] > today}
             /\ \A e \in fetched :
                  e[1] < today => e \notin Range(today_bucket) \cup Range(upcoming_bucket)
             /\ Q.self.calendar_today = today_bucket
             /\ Q.self.calendar_upcoming = upcoming_bucket
             /\ (fails = {} /\ hub.calendar = <<<<2, 2, 1>>, <<1, 1, 2>>>>) =>
                  (today_bucket = <<<<2, 2, 1>>>> /\ upcoming_bucket = <<>>)

\* C20 witness: the hub holds an event of today 09:00 and one of yesterday
\* 08:00, and a refresh has just filled the today bucket with the first alone.
C20_Witness ==
    /\ op = "update_data"
    /\ pc = "calendar"
    /\ FetchedIn(trace, "calendar")
    /\ hub.calendar = <<<<2, 2, 1>>, <<1, 1, 2>>>>
    /\ cache.calendar_today = <<<<2, 2, 1>>>>
    /\ cache.calendar_upcoming = <<>>
    /\ age.calendar = 0

\* What get returns for a key that the dict does not hold.
Absent == <<"absent">>
DefaultOf(key) == DataCacheGet(DataDefaults, key, Absent)
DefaultKeys == {DataDefaults[i][1][2] : i \in 1..Len(DataDefaults)}
NeverSet(tr, key) == \A i \in 1..Len(tr) : ~(tr[i][1] = "set" /\ tr[i][2] = key)
\* The last set of key by the running process: its position in the history,
\* 0 when the process has not set the key.
LastSet(tr, key) ==
    LET sets == {i \in 1..Len(tr) :
                   /\ tr[i][1] = "set" /\ tr[i][2] = key
                   /\ \A j \in i..Len(tr) : tr[j][1] # "__init__"}
    IN IF sets = {} THEN 0 ELSE CHOOSE i \in sets : \A j \in sets : j <= i

\* C13: when the write succeeds, set(key, v), a restart of the process and
\* the reload of the cache file give get(key) = v, for every key and every
\* JSON value v; and a key that was never set still has its default then.
C13_SetRestartGet ==
    pc = "cache" =>
      \A key \in CacheKeys, v \in JsonValues :
        LET A == DataCacheSet(cache, disk, key, v, Complete(DictSet(cache, JStr(key), v)))
            B == DataCacheInit(A.file).data
        IN /\ DataCacheGet(B, key, Absent) = v
           /\ \A k \in (CacheKeys \cup DefaultKeys) \ {key} :
                NeverSet(trace, k) => DataCacheGet(B, k, Absent) = DefaultOf(k)

\* C13 witness: a dict with a list and a dict inside was set as "tasks", the
\* write succeeded, the process restarted, and get("tasks") is that dict
\* while "weather", never set, is None.
C13_Witness ==
    /\ pc = "cache"
    /\ Len(trace) = 2
    /\ trace[1] = <<"set", "tasks",
                    JDict(<<<<JStr("a"), JList(<<JBool(FALSE)>>)>>, <<JStr("b"), JDict(<<>>)>>>>), TRUE>>
    /\ trace[2][1] = "__init__"
    /\ DataCacheGet(cache, "tasks", Absent) = trace[1][3]
    /\ DataCacheGet(cache, "weather", Absent) = JNull

\* A cache file that is missing, unreadable, not JSON, or JSON that is not
\* an object.
Malformed(file) ==
    \/ ~file.exists
    \/ ~file.readable
    \/ ~JsonLoad(file.text).ok
    \/ JsonLoad(file.text).v[1] # "dict"

\* C18 (as claimed): loading a missing, unreadable or malformed cache file,
\* valid JSON that is not an object included, leaves every domain at its
\* default, raises nothing and leaves the file alone, and the next successful
\* set writes a complete well-formed snapshot.
C18_MalformedLoadLeavesDefaults ==
    (pc = "cache" /\ Malformed(disk)) =>
      LET L == DataCacheInit(disk)
      IN /\ \A k \in CacheKeys \cup DefaultKeys : DataCacheGet(L.data, k, Absent) = DefaultOf(k)
         /\ ~L.raised
         /\ \A key \in CacheKeys, v \in JsonValues :
              LET R == DataCacheSet(L.data, disk, key, v, Complete(DictSet(L.data, JStr(key), v)))
                  J == JsonLoad(R.file.text)
              IN J.ok /\ J.v = JDict(R.data)

\* C19: when the write of set(key, v) fails, in whichever way, set raises
\* nothing and get(key) is v; and get(key) stays the value of the running
\* process's last set of key, whether its write succeeded or not, through
\* the sets of other keys.
C19_FailedSaveKeepsValue ==
    pc = "cache" =>
      /\ \A key \in CacheKeys, v \in JsonValues :
           \A written \in WriteOutcomes(DictSet(cache, JStr(key), v), FALSE) :
             LET R == DataCacheSet(cache, disk, key, v, written)
             IN ~R.raised /\ DataCacheGet(R.data, key, Absent) = v
      /\ \A key \in CacheKeys :
           LastSet(trace, key) # 0 =>
             DataCacheGet(cache, key, Absent) = trace[LastSet(trace, key)][3]

\* C19 witness: set("weather", 1) failed to write, then "tasks" was set, and
\* get("weather") is still 1 although no file holds it.
C19_Witness ==
    /\ pc = "cache"
    /\ Len(trace) = 2
    /\ trace[1] = <<"set", "weather", JNum(1), FALSE>>
    /\ trace[2][1] = "set" /\ trace[2][2] = "tasks"
    /\ DataCacheGet(cache, "weather", Absent) = JNum(1)
    /\ DataCacheGet(DataCacheInit(disk).data, "weather", Absent) = JNull

\* C16 (as claimed): every operation of the client returns, whatever the
\* hub answers, and returns None, an empty list or False when the request
\* fails (transport error, HTTP error, undecodable body).
C16_ClientNeverRaises ==
    pc = "client" =>
      \A name \in Operations, resp \in Responses :
        LET R == ClientCall(name, client_entity, resp)
        IN /\ ~R.raised
           /\ resp.kind # "json" => R.value \in {JNull, JList(<<>>), JBool(FALSE)}

\* What a successful fetch of domain d commits to the cache.
HubValue(h, d) ==
    CASE d = "weather" -> <<h.weather>>
      [] d = "forecast" -> <<h.forecast>>
      [] d = "tasks" -> <<HubItems(h, 1)>>
      [] d = "mailbox" -> <<h.mailbox>>
      [] d = "sun" -> <<h.sun>>

\* C17 (as claimed): update_data never ends with an exception, and in a frame
\* with the hub reachable, whichever fetches fail, every due domain is
\* fetched, and a due domain whose requests all succeed is committed to the
\* cache.
C17_FailuresAreIsolated ==
    /\ pc # "crashed"
    /\ pc = "loop" =>
         \A dt \in 1..MaxStep :
           \A fails \in FailSets(ClockTick(Process, dt)),
              oks \in OkSets(Process, Len(self.pending_actions)) :
             LET T == ClockTick(Process, dt)
                 Q == Frame(Process, dt, fails, oks)
             IN (hub.up /\ T.self.ha_connected) =>
                  /\ ~Q.raised
                  /\ \A d \in Domains :
                       Due(T.age[d], Interval(d)) =>
                         /\ FetchedIn(Q.trace, d)
                         /\ (d # "calendar" /\ DomainEndpoints(d) \cap fails = {}) =>
                              DomainCache(Q.cache, d) = HubValue(hub, d)

NoData(d) == IF d = "forecast" THEN <<<<>>>> ELSE <<0>>

C23_FetchedAtInterval ==
    pc = "loop" =>
      \A dt \in 1..MaxStep :
        \A fails \in FailSets(ClockTick(Process, dt)),
           oks \in OkSets(Process, Len(self.pending_actions)) :
          LET C == CheckHAConnection(ClockTick(Process, dt), oks)
              Q == Frame(Process, dt, fails, oks)
          IN (hub.up /\ C.self.ha_connected) =>
               \A d \in Domains :
                 FetchedIn(Q.trace, d) <=> (C.age[d] = Never \/ C.age[d] >= Interval(d))

\* C23 amended: in a frame with the hub flagged reachable after the
\* connectivity check, a domain is fetched exactly when the time since its
\* last update is greater than its interval (a last update of 0 included); a
\* domain whose last update lies exactly its interval back is not fetched.
C23_FetchedAfterInterval ==
    pc = "loop" =>
      \A dt \in 1..MaxStep :
        \A fails \in FailSets(ClockTick(Process, dt)),
           oks \in OkSets(Process, Len(self.pending_actions)) :
          LET C == CheckHAConnection(ClockTick(Process, dt), oks)
              Q == Frame(Process, dt, fails, oks)
          IN C.self.ha_connected =>
               \A d \in Domains :
                 /\ FetchedIn(Q.trace, d) <=> (C.age[d] = Never \/ C.age[d] > Interval(d))
                 /\ C.age[d] = Interval(d) => ~FetchedIn(Q.trace, d)

\* C23 witness: a frame with the hub reachable has fetched the tasks and not
\* the weather, whose last update lies exactly its interval back.
C23_Witness ==
    /\ op = "update_data"
    /\ hub.up /\ self.ha_connected
    /\ FetchedIn(trace, "tasks")
    /\ ~FetchedIn(trace, "weather")
    /\ age.weather = weather_interval
    /\ since_fetch.weather = weather_interval

\* C24: after the completion of a listed task u, whether the hub call was
\* made and succeeded or the action was queued, no item of the task list in
\* memory or of the cached tasks has uid u, and both are the previous list
\* without u, in its order.
C24_CompletedTaskRemoved ==
    pc = "loop" =>
      \A i \in 1..Len(self.task_items), oks \in OkSets(Process, 1) :
        LET u == self.task_items[i]
            Q == CompleteTaskHandler(Process, u, oks)
            rest == Without(self.task_items, {k \in 1..Len(self.task_items) : self.task_items[k] = u})
        IN /\ u \notin Range(Q.self.task_items) \cup Range(Q.cache.tasks)
           /\ Q.self.task_items = rest
           /\ Q.cache.tasks = rest

\* C24 witness: the completion of a task was queued (its hub call failed),
\* the task is gone from the list in memory and in the cache, and the other
\* task is still listed.
C24_Witness ==
    /\ op = "_complete_task"
    /\ Len(trace) = 1 /\ ~trace[1][4]
    /\ self.pending_actions # <<>>
    /\ self.pending_actions[Len(self.pending_actions)].task_uid = trace[1][3]
    /\ trace[1][3] \notin Range(self.task_items) \cup Range(cache.tasks)
    /\ self.task_items # <<>>
    /\ cache.tasks = self.task_items

\* C25 (as claimed): every task completion sent to the hub, at once or in a
\* replay, and every queued completion names the task list from which the
\* task was fetched.
C25_CompletionNamesSourceList ==
    /\ \A i \in 1..Len(trace) :
         trace[i][1] = "complete_todo_item" => trace[i][2] = ListOf(trace[i][3])
    /\ \A i \in 1..Len(self.pending_actions) :
         self.pending_actions[i].entity_id = ListOf(self.pending_actions[i].task_uid)

\* C26 (as claimed): no task whose completion is in the offline queue is in
\* the task list in memory or in the cached tasks.
C26_QueuedTaskNotListed ==
    \A i \in 1..Len(self.pending_actions) :
      self.pending_actions[i].task_uid \notin Range(self.task_items) \cup Range(cache.tasks)

\* C27 (as claimed): a mailbox check (in a frame or in the startup) sets
\* mailbox_cleared only when its request for the state of the check-mailbox
\* switch was answered and the switch was not on.
C27_ClearedOnlyBySwitchOff ==
    [][(op' \in {"update_data", "run"} /\ ~self.mailbox_cleared /\ self'.mailbox_cleared) =>
         /\ \E i \in 1..Len(trace') : trace'[i] = <<"get_state", mailbox_check_switch, 0, TRUE>>
         /\ ~hub.switch_on]_vars

\* C28 (as claimed): mailbox_cleared and mailbox_opened_today are never both
\* true, mailbox_opened_today is true only when mailbox_opened_time is set,
\* and once mailbox_cleared is true it stays true as long as the date is the
\* same: when a touch or a frame sets it, the frame that follows on the same
\* date leaves it set.
C28_MailboxFlagsConsistent ==
    /\ ~(self.mailbox_cleared /\ self.mailbox_opened_today)
    /\ self.mailbox_opened_today => self.mailbox_opened_time # 0
    /\ pc = "loop" =>
         \A dt \in 1..MaxStep, oks \in OkSets(Process, 1) :
           \A A \in {TouchMailboxHandler(Process, oks)}
                     \cup {Frame(Process, dt, f, {}) : f \in FailSets(ClockTick(Process, dt))} :
             \A fails \in FailSets(ClockTick(A, dt)) :
               LET B == Frame([A EXCEPT !.trace = <<>>], dt, fails, {})
               IN (~self.mailbox_cleared /\ A.self.mailbox_cleared) => B.self.mailbox_cleared

\* C29: a touch on the mailbox icon while the hub is flagged unreachable, while
\* the check switch is not on, or whose turn_off_switch call fails leaves
\* mailbox_check_on, mailbox_cleared, mailbox_opened_today,
\* mailbox_opened_time, the cache, its file and the offline queue unchanged.
C29_FailedAckChangesNothing ==
    pc = "loop" =>
      \A oks \in OkSets(Process, 1) :
        LET Q == TouchMailboxHandler(Process, oks)
            failed == \E i \in 1..Len(Q.trace) :
                        Q.trace[i][1] = "turn_off_switch" /\ ~Q.trace[i][4]
        IN (~self.ha_connected \/ ~self.mailbox_check_on \/ failed) =>
             /\ Q.self.mailbox_check_on = self.mailbox_check_on
             /\ Q.self.mailbox_cleared = self.mailbox_cleared
             /\ Q.self.mailbox_opened_today = self.mailbox_opened_today
             /\ Q.self.mailbox_opened_time = self.mailbox_opened_time
             /\ Q.self.pending_actions = self.pending_actions
             /\ Q.cache = cache
             /\ Q.disk = disk

\* A touch whose turn_off_switch call failed, the mailbox having been opened
\* today: the notification is still shown.
C29_Witness ==
    /\ op = "_handle_touch"
    /\ trace = <<<<"turn_off_switch", mailbox_check_switch, 0, FALSE>>>>
    /\ self.mailbox_check_on
    /\ self.mailbox_opened_today
    /\ ~self.mailbox_cleared

\* __init__: the cache key from which each display value is loaded.
CacheKeyOf ==
    [weather_data |-> "weather", forecast_data |-> "forecast", task_items |-> "tasks",
     calendar_today |-> "calendar_today", calendar_upcoming |-> "calendar_upcoming",
     mailbox_data |-> "mailbox", mailbox_opened_today |-> "mailbox_opened_today",
     mailbox_opened_time |-> "mailbox_opened_time", mailbox_cleared |-> "mailbox_cleared",
     sun_data |-> "sun_data", pending_actions |-> "pending_actions"]

=============================================================================
